---- MODULE Spec2Model ----
(***************************************************************************)
(* RMAnalyzer: the CSV-to-transaction parser, the per-person ledgers, the  *)
(* attribution engine (Summary / People) and the expense queries.          *)
(*                                                                         *)
(* Two revisions of the engine are modelled side by side, selected by the  *)
(* variable rev:                                                           *)
(*   "main" : src/main.py  (NotIgnoredFrom, Summary, SpreadsheetParser)    *)
(*   "v2"   : src/lambda_function/src/main_v2.py (IgnoredFrom, People)     *)
(* A run of the entry point is of one of three revisions: "main", "v2" or  *)
(*   "lambda" : src/lambda_function/src/main.py, the engine of main.py     *)
(*              with the report date parsed from the object key            *)
(*                                                                         *)
(* Text is modelled by the strings the conversions are applied to; a CSV   *)
(* text is the sequence of its lines, each line the sequence of its cells. *)
(* Amounts are floats in the source; a float is modelled by the decimal it  *)
(* stands for, in tenths of a cent, and by what the binary roundings have  *)
(* added to that decimal.                                                  *)
(***************************************************************************)
EXTENDS Integers, Sequences, FiniteSets, TLC

VARIABLES
    rev,        \* revision of the engine under analysis
    pc,         \* position of the caller: new, parse_done, constructed, populated, failed
    config,     \* the configuration document handed to the constructor
    cfgsrc,     \* where the configuration used came from: none, supplied, default
    owner,      \* Summary.owner
    date,       \* Summary.date
    people,     \* Summary.people / People.people: sequence of Person
    content,    \* the CSV text last handed to the parser
    parsed,     \* the list returned by the parser
    exc,        \* the exception that left the last call, "none" when it returned
    ret,        \* the last query on the current ledgers and the value it returned
    runs,       \* the runs of the entry point (lambda_handler), each with its own state
    call,       \* the last call of a function on its own: its arguments and its outcome
    module      \* what lambda_function/src/main.py has bound at module level in the process of the runs

vars == <<rev, pc, config, cfgsrc, owner, date, people, content, parsed, exc, ret,
          runs, call, module>>

----------------------------------------------------------------------------
(* Bounds *)

MaxRows == 2          \* data rows of a CSV text handed to the parser alone
MaxEngineRows == 2    \* data rows of a CSV text handed to the engine
NumRuns == 2          \* runs of the entry point in flight together

----------------------------------------------------------------------------
(* Generic helpers *)

Range(s) == {s[i] : i \in 1..Len(s)}

SeqUpTo(S, n) == UNION {[1..k -> S] : k \in 0..n}

Take(s, n) == [i \in 1..n |-> s[i]]

\* Python's None, as a cell or field value
None == "<None>"

\* placeholder where no date has been computed
NoDate == [year |-> 0, month |-> 0, day |-> 0]

Revs == {"main", "v2"}

\* the revisions of the entry point
RunRevs == {"main", "lambda", "v2"}

\* the engine a run uses: lambda_function/src/main.py has the Transaction,
\* Person, Summary and SpreadsheetParser of main.py; its Category is not a
\* class of the source but what build_category_enum() returns at import
Engine(r) == IF r = "lambda" THEN "main" ELSE r

----------------------------------------------------------------------------
(* Constants of the source *)

\* the strings datetime.strptime(s, DATE_FORMAT) accepts, with the date denoted
DATE_FORMAT ==
    << <<"2023-08-31", [year |-> 2023, month |-> 8, day |-> 31]>>,
       <<"2023-09-04", [year |-> 2023, month |-> 9, day |-> 4]>>,
       <<"2023-09-15", [year |-> 2023, month |-> 9, day |-> 15]>>,
       <<"2022-09-10", [year |-> 2022, month |-> 9, day |-> 10]>> >>

\* the strings int(s) accepts, with their value
IntLiterals ==
    << <<"1234", 1234>>, <<"4321", 4321>>, <<"1313", 1313>>,
       <<"2121", 2121>>, <<"9999", 9999>>, <<"17", 17>> >>

\* the strings float(s) accepts, with the decimal they denote, in tenths of
\* a cent
FloatLiterals ==
    << <<"17", 17000>>, <<"12.66", 12660>>, <<"1234", 1234000>>,
       <<"1313", 1313000>>, <<"-5.5", -5500>>, <<"0.004", 4>>,
       <<"0.015", 15>>, <<"0.125", 125>> >>

\* Category with the ENTERTAINMENT member of classes.py added to main.py's
Category_withEntertainment(r) ==
    IF r = "main"
    THEN << <<"DINING", "Dining & Drinks">>, <<"GROCERIES", "Groceries">>,
            <<"PETS", "Pets">>, <<"BILLS", "Bills & Utilities">>,
            <<"OTHER", "R & T Shared">>,
            <<"ENTERTAINMENT", "Entertainment & Rec.">> >>
    ELSE << <<"DINING", "Dining & Drinks">>, <<"GROCERIES", "Groceries">>,
            <<"PETS", "Pets">>, <<"BILLS", "Bills & Utilities">>,
            <<"PURCHASES", "Shared Purchases">>,
            <<"SUBSCRIPTIONS", "Shared Subscriptions">>,
            <<"TRAVEL", "Travel & Vacation">> >>

\* class Category(Enum): members in definition order, <<name, value>>
Category(r) ==
    IF r = "main"
    THEN << <<"DINING", "Dining & Drinks">>, <<"GROCERIES", "Groceries">>,
            <<"PETS", "Pets">>, <<"BILLS", "Bills & Utilities">>,
            <<"OTHER", "R & T Shared">> >>
    ELSE << <<"DINING", "Dining & Drinks">>, <<"GROCERIES", "Groceries">>,
            <<"PETS", "Pets">>, <<"BILLS", "Bills & Utilities">>,
            <<"PURCHASES", "Shared Purchases">>,
            <<"SUBSCRIPTIONS", "Shared Subscriptions">>,
            <<"TRAVEL", "Travel & Vacation">> >>

\* class NotIgnoredFrom(Enum)
NotIgnoredFrom == << <<"NOT_IGNORED", "">> >>

\* IgnoredFrom without its BUDGET and EVERYTHING members
IgnoredFrom_NothingOnly == << <<"NOTHING", "">> >>

\* class IgnoredFrom(Enum)
IgnoredFrom == << <<"BUDGET", "budget">>, <<"EVERYTHING", "everything">>,
                  <<"NOTHING", "">> >>

\* the ignore enumeration a revision's Transaction carries
IgnoreEnum(r) == IF r = "main" THEN NotIgnoredFrom ELSE IgnoredFrom

\* the member that means "not ignored" in a revision
NotIgnored(r) == IF r = "main" THEN "NOT_IGNORED" ELSE "NOTHING"

----------------------------------------------------------------------------
(* Conversions.  Each returns [ok, v]; ok = FALSE is the ValueError the     *)
(* conversion raises on a string it does not accept.                        *)

\* lookup in a table of <<key, value>> pairs: first pair with that key
Lookup(table, k) ==
    LET hits == {i \in 1..Len(table) : table[i][1] = k}
    IN  IF hits = {} THEN [ok |-> FALSE, v |-> table[1][2]]
        ELSE [ok |-> TRUE,
              v |-> table[CHOOSE i \in hits : \A j \in hits : i <= j][2]]

(* float.  Every float of the program comes from the decimals read from    *)
(* the texts by additions and subtractions, each rounded to the nearest of  *)
(* the 53-bit floats (ties to the even one).  Such a float is               *)
(*     (a + r / 2^s) / 1000                                                 *)
(* where a is the decimal the same arithmetic gives without rounding, in    *)
(* tenths of a cent, and r / 2^s is what the roundings have added to it, a  *)
(* small fraction of a tenth of a cent.  The record [a, r, s] has r odd, or *)
(* r = 0 and s = 0, so that equal floats are equal records.                 *)

FloatZero == [a |-> 0, r |-> 0, s |-> 0]

\* 2^k
RECURSIVE Pow2(_)
Pow2(k) == IF k = 0 THEN 1 ELSE 2 * Pow2(k - 1)

\* 2^0, ..., 2^(n-1) modulo 2000
RECURSIVE Pow2Mod2000Upto(_)
Pow2Mod2000Upto(n) ==
    IF n = 1 THEN <<1>>
    ELSE LET below == Pow2Mod2000Upto(n - 1)
         IN  Append(below, (2 * below[n - 1]) % 2000)

\* 2^k modulo 2000, for the k of the floats between 2^-48 and 2^53
Pow2Mod2000Table == Pow2Mod2000Upto(101)
Pow2Mod2000(k) == Pow2Mod2000Table[k + 1]

\* floor(log2(m)) for m >= 1
RECURSIVE Log2(_)
Log2(m) == IF m < 2 THEN 0 ELSE 1 + Log2(m \div 2)

\* the least j with n * 2^j >= 1000, for 0 < n
RECURSIVE UpShift(_)
UpShift(n) == IF n >= 1000 THEN 0 ELSE 1 + UpShift(2 * n)

\* floor(log2(n / 1000)) for n > 0
FloorLog2(n) == IF n >= 1000 THEN Log2(n \div 1000) ELSE -UpShift(n)

\* n / 1000 = 2^e
IsPow2(n, e) == IF e >= 0 THEN n = 1000 * Pow2(e) ELSE n * Pow2(-e) = 1000

\* the record of (a + r / 2^s) / 1000 with r odd, or r = 0 and s = 0
RECURSIVE FloatNorm(_, _, _)
FloatNorm(a, r, s) ==
    IF r = 0 THEN [a |-> a, r |-> 0, s |-> 0]
    ELSE IF r % 2 = 0 /\ s > 0 THEN FloatNorm(a, r \div 2, s - 1)
    ELSE [a |-> a, r |-> r, s |-> s]

\* x < 0
FloatIsNegative(x) == x.a < 0 \/ (x.a = 0 /\ x.r < 0)

\* -x
FloatNeg(x) == [a |-> -x.a, r |-> -x.r, s |-> x.s]

\* abs(x)
FloatAbs(x) == IF FloatIsNegative(x) THEN FloatNeg(x) ELSE x

\* the t for which the floats next to v = (a + r / 2^s) / 1000 > 0 are the
\* multiples of 2^-t: t = 52 - floor(log2(v)).  v is in the binade of a/1000
\* unless a/1000 is a power of two and v is below it.
FloatScale(a, r, s) ==
    IF a > 0
    THEN LET e == FloorLog2(a)
         IN  52 - (IF r < 0 /\ IsPow2(a, e) THEN e - 1 ELSE e)
    ELSE 52 - (FloorLog2(r) - s)

\* the multiple of 2^-t nearest to v = (a + r / 2^s) / 1000, a > 0, ties to
\* the even multiple.  v * 2^t = (a * 2^t + r * 2^(t-s)) / 1000; with
\* a * 2^t = 2000 * k + q, the multiple is 2 * k + m for the integer m
\* nearest to (q + r * 2^(t-s)) / 1000, which leaves 1000 * m - q over 2^t
\* next to a.
FloatRound(a, r, s, t) ==
    LET q == ((a % 2000) * Pow2Mod2000(t)) % 2000
        whole == IF r = 0 THEN 0
                 ELSE IF s >= t THEN r \div Pow2(s - t)
                 ELSE r * Pow2(t - s)
        part == r # 0 /\ s > t /\ r % Pow2(s - t) # 0
        w == q + whole
        b == w \div 1000
        u == w % 1000
        m == IF u < 500 THEN b
             ELSE IF u > 500 \/ part THEN b + 1
             ELSE IF b % 2 = 0 THEN b ELSE b + 1
    IN  FloatNorm(a, 1000 * m - q, t)

\* the float nearest to the decimal a / 1000: what float(s) returns for a
\* text s that denotes a / 1000
FloatOf(a) ==
    IF a = 0 THEN FloatZero
    ELSE IF a < 0 THEN FloatNeg(FloatRound(-a, 0, 0, FloatScale(-a, 0, 0)))
    ELSE FloatRound(a, 0, 0, FloatScale(a, 0, 0))

\* x + y of floats (and of the int 0 that sum() starts from, which is
\* FloatZero): the float nearest to the exact sum.  The exact sum is a
\* multiple of 2^-T, T the larger t of x and y; it is a float already when
\* its own t is not below T.
FloatAdd(x, y) ==
    IF x = FloatZero THEN y
    ELSE IF y = FloatZero THEN x
    ELSE LET s == IF x.s > y.s THEN x.s ELSE y.s
             a == x.a + y.a
             r == (IF x.r = 0 THEN 0 ELSE x.r * Pow2(s - x.s))
                      + (IF y.r = 0 THEN 0 ELSE y.r * Pow2(s - y.s))
             negative == a < 0 \/ (a = 0 /\ r < 0)
             ma == IF negative THEN -a ELSE a
             mr == IF negative THEN -r ELSE r
             t == FloatScale(ma, mr, s)
             tx == FloatScale(FloatAbs(x).a, FloatAbs(x).r, x.s)
             ty == FloatScale(FloatAbs(y).a, FloatAbs(y).r, y.s)
             res == IF t >= tx /\ t >= ty THEN FloatNorm(ma, mr, s)
                    ELSE FloatRound(ma, mr, s, t)
         IN  IF a = 0 /\ r = 0 THEN FloatZero
             ELSE IF negative THEN FloatNeg(res) ELSE res

\* x - y
FloatSub(x, y) == FloatAdd(x, FloatNeg(y))

\* datetime.strptime(s, DATE_FORMAT).date()
strptime(s) == Lookup(DATE_FORMAT, s)

\* int(s)
int(s) == Lookup(IntLiterals, s)

\* the strings float(s) accepts, with the float nearest to the decimal
FloatValues ==
    [i \in 1..Len(FloatLiterals) |->
        <<FloatLiterals[i][1], FloatOf(FloatLiterals[i][2])>>]

\* float(s)
float(s) == Lookup(FloatValues, s)

\* Enum(value): the member whose value is s, ValueError when there is none
EnumByValue(enum, s) ==
    LET hits == {i \in 1..Len(enum) : enum[i][2] = s}
    IN  IF hits = {} THEN [ok |-> FALSE, v |-> enum[1][1]]
        ELSE [ok |-> TRUE, v |-> enum[CHOOSE i \in hits : TRUE][1]]

----------------------------------------------------------------------------
(* csv.DictReader *)

\* the lines DictReader makes a row of: after the line of the fieldnames,
\* blank lines are skipped ("while row == []: row = next(self.reader)")
NonBlank(lines) == SelectSeq(lines, LAMBDA l : Len(l) > 0)

\* csv.DictReader(lines): the fieldnames are the first line, blank or not
\* (next(self.reader) is taken as it comes); the rows are the lines after it
\* that are not blank.  No line at all: no fieldnames and no rows.
DictReader(lines) ==
    IF Len(lines) = 0 THEN [fieldnames |-> <<>>, rows |-> <<>>]
    ELSE [fieldnames |-> lines[1], rows |-> NonBlank(Tail(lines))]

\* the dict built for one data line, dict(zip(fieldnames, row)): a name that
\* is repeated keeps the cell of its last column; None for the fieldnames the
\* line is too short to fill (restval); cells beyond the fieldnames go under
\* the key None, which no code reads
DictRow(fieldnames, cells) ==
    [c \in Range(fieldnames) |->
        LET cols == {j \in 1..Len(fieldnames) : fieldnames[j] = c}
            i == CHOOSE j \in cols : \A k \in cols : k <= j
        IN  IF i <= Len(cells) THEN cells[i] ELSE None]

----------------------------------------------------------------------------
(* Transaction *)

NoTransaction ==
    [id |-> 0, date |-> [year |-> 0, month |-> 0, day |-> 0], name |-> None,
     account_number |-> 0, amount |-> FloatZero, category |-> None,
     ignore |-> None]

\* results of from_row / to_transaction
Returned(t) == [kind |-> "ok", t |-> t, exc |-> "none"]
ReturnedNone == [kind |-> "none", t |-> NoTransaction, exc |-> "none"]
Raised(e) == [kind |-> "raise", t |-> NoTransaction, exc |-> e]

\* Transaction.__init__: main.py checks the argument types, main_v2.py does
\* not; the only argument that can arrive ill-typed from from_row is a name
\* of None
Transaction(r, id, d, name, account_number, amount, category, ignore) ==
    IF r = "main" /\ name = None
    THEN Raised("TypeError")
    ELSE Returned([id |-> id, date |-> d, name |-> name,
                   account_number |-> account_number, amount |-> amount,
                   category |-> category, ignore |-> ignore])

\* Transaction.from_row (main.py) / to_transaction (main_v2.py).  The
\* statements run in order; KeyError and ValueError are caught and None is
\* returned, a TypeError (a conversion applied to None) is not caught.
\* Cat is the Category of the module: the class of main.py or main_v2.py, or
\* what build_category_enum returned when lambda_function/src/main.py was
\* imported.  id is the identity of the object created (the number of the
\* data row).
from_row(r, Cat, row, id) ==
    IF "Date" \notin DOMAIN row THEN ReturnedNone
    ELSE IF row["Date"] = None THEN Raised("TypeError")
    ELSE IF ~strptime(row["Date"]).ok THEN ReturnedNone
    ELSE IF "Name" \notin DOMAIN row THEN ReturnedNone
    ELSE IF "Account Number" \notin DOMAIN row THEN ReturnedNone
    ELSE IF row["Account Number"] = None THEN Raised("TypeError")
    ELSE IF ~int(row["Account Number"]).ok THEN ReturnedNone
    ELSE IF "Amount" \notin DOMAIN row THEN ReturnedNone
    ELSE IF row["Amount"] = None THEN Raised("TypeError")
    ELSE IF ~float(row["Amount"]).ok THEN ReturnedNone
    ELSE IF "Category" \notin DOMAIN row THEN ReturnedNone
    ELSE IF ~EnumByValue(Cat, row["Category"]).ok THEN ReturnedNone
    ELSE IF "Ignored From" \notin DOMAIN row THEN ReturnedNone
    ELSE IF ~EnumByValue(IgnoreEnum(r), row["Ignored From"]).ok THEN ReturnedNone
    ELSE Transaction(r, id,
                     strptime(row["Date"]).v,
                     row["Name"],
                     int(row["Account Number"]).v,
                     float(row["Amount"]).v,
                     EnumByValue(Cat, row["Category"]).v,
                     EnumByValue(IgnoreEnum(r), row["Ignored From"]).v)

to_transaction(row, id) == from_row("v2", Category("v2"), row, id)

\* the loop of SpreadsheetParser.parse / get_transactions over the data
\* lines from line i on, results being the list built so far
RECURSIVE ParseLoop(_, _, _, _, _, _)
ParseLoop(r, Cat, fieldnames, lines, i, results) ==
    IF i > Len(lines) THEN [exc |-> "none", results |-> results]
    ELSE LET transaction == from_row(r, Cat, DictRow(fieldnames, lines[i]), i)
         IN  IF transaction.kind = "raise"
             THEN [exc |-> transaction.exc, results |-> <<>>]
             ELSE IF transaction.kind = "ok"
             THEN ParseLoop(r, Cat, fieldnames, lines, i + 1,
                            Append(results, transaction.t))
             ELSE ParseLoop(r, Cat, fieldnames, lines, i + 1, results)

\* SpreadsheetParser.parse(file_content) / the body of get_transactions after
\* the read: "for row in reader" over csv.DictReader(file_content.splitlines())
parse(r, Cat, file_content) ==
    LET reader == DictReader(file_content)
    IN  ParseLoop(r, Cat, reader.fieldnames, reader.rows, 1, <<>>)

get_transactions(file_content) == parse("v2", Category("v2"), file_content)

----------------------------------------------------------------------------
(* CSV texts handed to the parser *)

FullHeader ==
    <<"Date", "Name", "Account Number", "Amount", "Category", "Ignored From">>
NameLastHeader ==
    <<"Date", "Account Number", "Amount", "Category", "Ignored From", "Name">>
NoIgnoredHeader ==
    <<"Date", "Name", "Account Number", "Amount", "Category">>
GarbageHeader == <<"***THIS IS A GARBAGE SPREADSHEET***">>

Headers == {FullHeader, NameLastHeader, NoIgnoredHeader, GarbageHeader}

RowMadcats ==
    <<"2023-08-31", "MADCATS DANCE", "1313", "17", "Groceries", "">>
RowTikicat ==
    <<"2023-09-04", "TIKICAT BAR", "1234", "12.66", "Dining & Drinks", "">>
RowNameLast ==
    <<"2023-09-04", "1234", "12.66", "Dining & Drinks", "", "TIKICAT BAR">>

\* row with cell k replaced
With(row, k, cell) == [row EXCEPT ![k] = cell]

ParseRowSamples ==
    {RowMadcats, RowTikicat, RowNameLast}
    \cup {With(RowTikicat, 1, "09/04/2023"),
          With(RowTikicat, 3, "12x4"),
          With(RowTikicat, 4, "abc"),
          With(RowTikicat, 5, "Internal Transfers"),
          With(RowTikicat, 5, "R & T Shared"),
          With(RowTikicat, 5, "Travel & Vacation"),
          With(RowTikicat, 6, "budget"),
          With(RowTikicat, 6, "everything"),
          With(RowTikicat, 6, "savings")}
    \cup {Take(RowTikicat, k) : k \in 1..5}
    \cup {Take(RowNameLast, 5), <<"not a date">>,
          RowTikicat \o <<"extra">>}

\* a header that names the Date column twice
TwoDatesHeader == FullHeader \o <<"Date">>

\* texts with blank lines, and texts whose header repeats a name
OddContents ==
    {<< <<>> >>,
     << <<>>, <<>> >>,
     << <<>>, FullHeader, RowTikicat>>,
     <<FullHeader, <<>>, RowTikicat>>,
     <<FullHeader, RowTikicat, <<>>, <<>>, RowMadcats>>,
     <<TwoDatesHeader, RowTikicat \o <<"2023-08-31">> >>,
     <<TwoDatesHeader, RowTikicat \o <<"09/04/2023">> >>,
     <<TwoDatesHeader, With(RowTikicat, 1, "09/04/2023") \o <<"2023-08-31">> >>,
     <<TwoDatesHeader, RowTikicat>>}

ParseContents ==
    {<<>>} \cup OddContents \cup
    {<<h>> \o rows : h \in Headers, rows \in SeqUpTo(ParseRowSamples, MaxRows)}

----------------------------------------------------------------------------
(* Configuration documents: JSON values, tagged with their Python type.    *)
(* A dict is the sequence of its <<key, value>> pairs in document order.   *)

JSON(t, s, n, items, pairs) ==
    [t |-> t, s |-> s, n |-> n, items |-> items, pairs |-> pairs]

JNone == JSON("none", "", 0, <<>>, <<>>)
JStr(s) == JSON("str", s, 0, <<>>, <<>>)
JInt(n) == JSON("int", "", n, <<>>, <<>>)
JList(items) == JSON("list", "", 0, items, <<>>)
JDict(pairs) == JSON("dict", "", 0, <<>>, pairs)

\* bool(x)
Truthy(j) ==
    CASE j.t = "none" -> FALSE
      [] j.t = "str" -> j.s # ""
      [] j.t = "int" -> j.n # 0
      [] j.t = "list" -> Len(j.items) > 0
      [] OTHER -> Len(j.pairs) > 0

\* x[key] for a string key: KeyError on a dict without the key, TypeError on
\* anything that is not a dict
Subscript(j, key) ==
    IF j.t # "dict" THEN [exc |-> "TypeError", v |-> JNone]
    ELSE LET hits == {i \in 1..Len(j.pairs) : j.pairs[i][1] = key}
         IN  IF hits = {} THEN [exc |-> "KeyError", v |-> JNone]
             ELSE [exc |-> "none", v |-> j.pairs[CHOOSE i \in hits : TRUE][2]]

\* the items "for x in j" yields: the elements of a list, the keys of a
\* dict, the characters of a string (each one a str); TypeError otherwise
Iterate(j) ==
    CASE j.t = "list" -> [exc |-> "none", items |-> j.items]
      [] j.t = "dict" ->
            [exc |-> "none",
             items |-> [i \in 1..Len(j.pairs) |-> JStr(j.pairs[i][1])]]
      [] j.t = "str" ->
            [exc |-> "none",
             items |-> [i \in 1..Len(j.s) |-> JStr(SubSeq(j.s, i, i))]]
      [] OTHER -> [exc |-> "TypeError", items |-> <<>>]

PersonEntry(name, email, accounts) ==
    JDict(<< <<"Name", name>>, <<"Accounts", accounts>>, <<"Email", email>> >>)

George == PersonEntry(JStr("George"), JStr("boygeorge@gmail.com"),
                      JList(<<JInt(1234), JInt(4321)>>))
Tootie == PersonEntry(JStr("Tootie"), JStr("tuttifruity@hotmail.com"),
                      JList(<<JInt(1313), JInt(2121)>>))
TootieShared == PersonEntry(JStr("Tootie"), JStr("tuttifruity@hotmail.com"),
                            JList(<<JInt(1313), JInt(1234)>>))
Alex == PersonEntry(JStr("Alex"), JStr("alex@example.com"),
                    JList(<<JInt(9999), JInt(1313)>>))

ConfigOf(entries) ==
    JDict(<< <<"People", JList(entries)>>, <<"Owner", JStr("bebas@gmail.com")>> >>)

\* the document stored at CONFIG = {"Bucket": ..., "Key": "config.json"}
StoredConfig == ConfigOf(<<George, Tootie>>)

GoodConfigs ==
    {ConfigOf(<<George, Tootie>>), ConfigOf(<<George, TootieShared>>),
     ConfigOf(<<George>>), ConfigOf(<<George, Tootie, Alex>>),
     ConfigOf(<<>>)}

\* documents lacking a key, of the wrong type, or with a bad person entry
BadConfigs ==
    {JDict(<<>>),
     JDict(<< <<"bad", JStr("config")>> >>),
     JDict(<< <<"People", JList(<<George, Tootie>>)>> >>),
     JDict(<< <<"Owner", JStr("bebas@gmail.com")>> >>),
     JList(<<JStr("bad"), JStr("config")>>),
     JList(<<>>),
     JStr("config.json"),
     JInt(5),
     ConfigOf(<<George,
                JDict(<< <<"Accounts", JList(<<JInt(1313)>>)>>,
                         <<"Email", JStr("tuttifruity@hotmail.com")>> >>)>>),
     ConfigOf(<<JDict(<< <<"Name", JStr("George")>>,
                         <<"Accounts", JList(<<JInt(1234)>>)>> >>)>>),
     ConfigOf(<<JDict(<< <<"Name", JStr("George")>>,
                         <<"Email", JStr("boygeorge@gmail.com")>> >>)>>),
     ConfigOf(<<PersonEntry(JStr("George"), JStr("boygeorge@gmail.com"),
                            JList(<<JStr("1234"), JStr("4321")>>))>>),
     ConfigOf(<<PersonEntry(JInt(7), JStr("boygeorge@gmail.com"),
                            JList(<<JInt(1234)>>))>>),
     ConfigOf(<<PersonEntry(JStr("George"), JStr("boygeorge@gmail.com"),
                            JInt(1234))>>),
     ConfigOf(<<JStr("George")>>),
     JDict(<< <<"People", JInt(2)>>, <<"Owner", JStr("bebas@gmail.com")>> >>),
     JDict(<< <<"People", JStr("GT")>>, <<"Owner", JStr("bebas@gmail.com")>> >>),
     ConfigOf(<<PersonEntry(JStr("George"), JStr("boygeorge@gmail.com"),
                            JStr("1234"))>>),
     ConfigOf(<<PersonEntry(JStr("George"), JStr("boygeorge@gmail.com"),
                            JStr(""))>>),
     ConfigOf(<<PersonEntry(JStr("George"), JStr("boygeorge@gmail.com"),
                            JDict(<<>>))>>)}

\* what a store holds under a name: nothing, a text that json.loads
\* rejects, or the text of a JSON document (of JNone: the text "null")
NotStored == [kind |-> "absent", doc |-> JNone]
NotJSON == [kind |-> "text", doc |-> JNone]
StoredJSON(doc) == [kind |-> "json", doc |-> doc]

\* what the bucket may hold under CONFIG
StoredConfigs ==
    {StoredJSON(StoredConfig), StoredJSON(JNone), NotJSON, NotStored}

\* config=None: no document supplied
Configs == GoodConfigs \cup BadConfigs \cup {JNone}

ReportDates == {[year |-> 2023, month |-> 9, day |-> 23]}

----------------------------------------------------------------------------
(* Person *)

\* A list object: its identity and its items.  Two names are bound to one
\* list exactly when the identities are equal; transactions=None is NoList,
\* which is no list and has the identity of none.
ListObject(id, items) == [id |-> id, items |-> items]
NoList == ListObject(0, <<>>)

\* the identity of the list a "[]" makes while the lists of the identities
\* in live exist: one that none of them has
NewList(live) ==
    IF live = {} THEN 1
    ELSE LET m == CHOOSE m \in live : \A n \in live : n <= m
         IN  IF m < 1 THEN 1 ELSE m + 1

\* an item of a list passed as transactions is a Transaction
IsTransaction(x) == "account_number" \in DOMAIN x

\* A Person is [name, email, account_numbers, ledger, transactions]: ledger
\* is the identity of the list self.transactions is bound to, transactions
\* the items of that list.
NoPerson == [name |-> None, email |-> None, account_numbers |-> JList(<<>>),
             ledger |-> 0, transactions |-> <<>>]

\* Person.__init__ with the ledger as an attribute of the class
\* ("transactions = []" in the class body, assigned in __init__ only when
\* transactions are passed): the Persons built without transactions all read
\* the one list of the class, list 0, made before every list of a call
Person_classLedger(name, email, account_numbers, transactions, live) ==
    IF name.t # "str" THEN [exc |-> "TypeError", person |-> NoPerson]
    ELSE IF email.t # "str" THEN [exc |-> "TypeError", person |-> NoPerson]
    ELSE IF Iterate(account_numbers).exc # "none"
    THEN [exc |-> "TypeError", person |-> NoPerson]
    ELSE IF \E i \in 1..Len(Iterate(account_numbers).items) :
                Iterate(account_numbers).items[i].t # "int"
    THEN [exc |-> "TypeError", person |-> NoPerson]
    ELSE IF \E k \in 1..Len(transactions.items) :
                ~IsTransaction(transactions.items[k])
    THEN [exc |-> "TypeError", person |-> NoPerson]
    ELSE [exc |-> "none",
          person |-> [name |-> name.s, email |-> email.s,
                      account_numbers |-> account_numbers,
                      ledger |-> IF Len(transactions.items) > 0
                                 THEN transactions.id ELSE 0,
                      transactions |-> transactions.items]]

\* Person.__init__(name, email, account_numbers, transactions) of main.py
\* while the lists of the identities in live exist: the isinstance checks,
\* then the four assignments; the result is [exc, person].
\* self.account_numbers is the object that was passed: a list of ints, or
\* anything else whose iteration yields ints only, which for a JSON value
\* leaves the empty str and the empty dict.  self.transactions is
\* "transactions or []": the list that was passed when it holds something,
\* and a new list when it is empty or None.
Person(name, email, account_numbers, transactions, live) ==
    IF name.t # "str" THEN [exc |-> "TypeError", person |-> NoPerson]
    ELSE IF email.t # "str" THEN [exc |-> "TypeError", person |-> NoPerson]
    ELSE IF Iterate(account_numbers).exc # "none"
    THEN [exc |-> "TypeError", person |-> NoPerson]
    ELSE IF \E i \in 1..Len(Iterate(account_numbers).items) :
                Iterate(account_numbers).items[i].t # "int"
    THEN [exc |-> "TypeError", person |-> NoPerson]
    ELSE IF \E k \in 1..Len(transactions.items) :
                ~IsTransaction(transactions.items[k])
    THEN [exc |-> "TypeError", person |-> NoPerson]
    ELSE [exc |-> "none",
          person |-> [name |-> name.s, email |-> email.s,
                      account_numbers |-> account_numbers,
                      ledger |-> IF Len(transactions.items) > 0
                                 THEN transactions.id
                                 ELSE NewList(live \cup {transactions.id}),
                      transactions |-> transactions.items]]

\* Person.__init__(name, email, account_numbers, transactions) of
\* main_v2.py: four assignments and no check; self.transactions is the list
\* that was passed, empty or not
Person_v2(name, email, account_numbers, transactions) ==
    [name |-> name, email |-> email, account_numbers |-> account_numbers,
     ledger |-> transactions.id, transactions |-> transactions.items]

\* add_transaction that leaves out a transaction the ledger already holds
add_transaction_unique(person, transaction) ==
    IF \E k \in 1..Len(person.transactions) :
           person.transactions[k] = transaction
    THEN person
    ELSE [person EXCEPT !.transactions = Append(@, transaction)]

\* add_transaction that inserts at the front of the ledger
add_transaction_prepend(person, transaction) ==
    [person EXCEPT !.transactions = <<transaction>> \o @]

\* Person.add_transaction: list.append on the list self.transactions is
\* bound to, as this Person reads it afterwards
add_transaction(person, transaction) ==
    [person EXCEPT !.transactions = Append(@, transaction)]

\* add_transaction on a ledger kept by the roster ("for p in people:
\* p.transactions.append(transaction)"): every Person receives the item
Person_add_transaction_toAll(ppl, i, t) ==
    [j \in 1..Len(ppl) |-> add_transaction(ppl[j], t)]

\* ppl[i].add_transaction(t) for a Person of a list of Persons: the append
\* is to the list object, so every Person bound to that object reads it
Person_add_transaction(ppl, i, t) ==
    [j \in 1..Len(ppl) |->
        IF ppl[j].ledger = ppl[i].ledger
        THEN add_transaction(ppl[j], t)
        ELSE ppl[j]]

\* the list of Persons once person k has changed its list: every Person
\* bound to the list of person k reads what person k reads
ThroughList(ppl, k) ==
    [j \in 1..Len(ppl) |->
        IF ppl[j].ledger = ppl[k].ledger
        THEN [ppl[j] EXCEPT !.transactions = ppl[k].transactions]
        ELSE ppl[j]]

\* sum(t.amount for t in ...) over a list of transactions: from the int 0,
\* left to right, each addition rounded to a float
RECURSIVE SumAmounts(_)
SumAmounts(ts) ==
    IF Len(ts) = 0 THEN FloatZero
    ELSE FloatAdd(SumAmounts(Take(ts, Len(ts) - 1)), ts[Len(ts)].amount)

\* calculate_expenses that does not restrict the sum to the category
calculate_expenses_all(r, person, category) ==
    IF r = "v2" /\ Len(person.transactions) = 0 THEN FloatZero
    ELSE SumAmounts(person.transactions)

\* Person.calculate_expenses(category), category = None when absent
calculate_expenses(r, person, category) ==
    IF r = "v2" /\ Len(person.transactions) = 0 THEN FloatZero
    ELSE IF category # None
    THEN SumAmounts(SelectSeq(person.transactions,
                              LAMBDA t : t.category = category))
    ELSE SumAmounts(person.transactions)

----------------------------------------------------------------------------
(* Summary (main.py) and People (main_v2.py) *)

\* CONFIG = {"Bucket": "rm-analyzer-config", "Key": "config.json"}
CONFIG ==
    JDict(<< <<"Bucket", JStr("rm-analyzer-config")>>,
             <<"Key", JStr("config.json")>> >>)

\* load_config(config): conf is the argument (None: CONFIG), stored is what
\* S3 holds under conf["Bucket"] and conf["Key"].  The result is [exc, v]:
\* the document json.loads returns, or the error of the subscripts, of the
\* read (ClientError) or of the decoding (JSONDecodeError), each logged and
\* raised again.
load_config(conf, stored) ==
    LET location == IF conf.t = "none" THEN CONFIG ELSE conf
        bucket == Subscript(location, "Bucket")
        key == Subscript(location, "Key")
    IN  IF bucket.exc # "none" THEN [exc |-> bucket.exc, v |-> JNone]
        ELSE IF key.exc # "none" THEN [exc |-> key.exc, v |-> JNone]
        ELSE IF stored.kind = "absent" THEN [exc |-> "ClientError", v |-> JNone]
        ELSE IF stored.kind = "text"
        THEN [exc |-> "JSONDecodeError", v |-> JNone]
        ELSE [exc |-> "none", v |-> stored.doc]

\* the comprehension that puts each new person in front of the roster
RECURSIVE InitPeopleLoop_prepending(_, _, _, _)
InitPeopleLoop_prepending(entries, i, built, live) ==
    IF i > Len(entries) THEN [exc |-> "none", people |-> built]
    ELSE LET p == entries[i]
             name == Subscript(p, "Name")
             email == Subscript(p, "Email")
             accounts == Subscript(p, "Accounts")
         IN  IF name.exc # "none" THEN [exc |-> name.exc, people |-> <<>>]
             ELSE IF email.exc # "none" THEN [exc |-> email.exc, people |-> <<>>]
             ELSE IF accounts.exc # "none"
             THEN [exc |-> accounts.exc, people |-> <<>>]
             ELSE LET empty == ListObject(NewList(live), <<>>)
                      person == Person(name.v, email.v, accounts.v, empty,
                                       live)
                  IN  IF person.exc # "none"
                      THEN [exc |-> person.exc, people |-> <<>>]
                      ELSE InitPeopleLoop_prepending(
                               entries, i + 1, <<person.person>> \o built,
                               live \cup {empty.id, person.person.ledger})

\* the list comprehension of Summary.initialize_people from entry i on:
\* Person(p["Name"], p["Email"], p["Accounts"], []), the "[]" making a new
\* list for every entry; live holds the identities of the lists there are
RECURSIVE InitPeopleLoop(_, _, _, _)
InitPeopleLoop(entries, i, built, live) ==
    IF i > Len(entries) THEN [exc |-> "none", people |-> built]
    ELSE LET p == entries[i]
             name == Subscript(p, "Name")
             email == Subscript(p, "Email")
             accounts == Subscript(p, "Accounts")
         IN  IF name.exc # "none" THEN [exc |-> name.exc, people |-> <<>>]
             ELSE IF email.exc # "none" THEN [exc |-> email.exc, people |-> <<>>]
             ELSE IF accounts.exc # "none"
             THEN [exc |-> accounts.exc, people |-> <<>>]
             ELSE LET empty == ListObject(NewList(live), <<>>)
                      person == Person(name.v, email.v, accounts.v, empty,
                                       live)
                  IN  IF person.exc # "none"
                      THEN [exc |-> person.exc, people |-> <<>>]
                      ELSE InitPeopleLoop(
                               entries, i + 1, Append(built, person.person),
                               live \cup {empty.id, person.person.ledger})

\* Summary.initialize_people(people_config) while the lists of the
\* identities in live exist
initialize_people(people_config, live) ==
    IF Iterate(people_config).exc # "none"
    THEN [exc |-> "TypeError", people |-> <<>>]
    ELSE InitPeopleLoop(Iterate(people_config).items, 1, <<>>, live)

\* Summary.__init__(date, config) for the outcome "loaded" of load_config()
\* and the key of the owner ("Owner" in main.py, "OwnerEmail" in
\* lambda_function/src/main.py).  The result is [exc, src, owner, people]; src
\* tells which document was used; live holds the identities of the lists
\* there are when the constructor is called.
SummaryInitFrom(ownerKey, supplied, loaded, live) ==
    LET useDefault == ~Truthy(supplied)
        cfg == IF useDefault THEN loaded.v ELSE supplied
        src == IF useDefault THEN "default" ELSE "supplied"
        fail(e) == [exc |-> e, src |-> src, owner |-> JNone, people |-> <<>>]
    IN  IF useDefault /\ loaded.exc # "none" THEN fail(loaded.exc)
        ELSE IF Subscript(cfg, ownerKey).exc # "none"
        THEN fail(Subscript(cfg, ownerKey).exc)
        ELSE IF Subscript(cfg, "People").exc # "none"
        THEN fail(Subscript(cfg, "People").exc)
        ELSE LET ppl == initialize_people(Subscript(cfg, "People").v, live)
             IN  IF ppl.exc # "none" THEN fail(ppl.exc)
                 ELSE [exc |-> "none", src |-> src,
                       owner |-> Subscript(cfg, ownerKey).v,
                       people |-> ppl.people]

\* Summary.__init__(date, config) of main.py: stored is what load_config
\* would read
SummaryInit(supplied, stored, live) ==
    SummaryInitFrom("Owner", supplied, load_config(JNone, stored), live)

\* "n in person.account_numbers" for an int n, as [exc, v]: membership in a
\* list, a key test in a dict (the keys of a JSON object are strings), and
\* TypeError for a str ("'in <string>' requires string as left operand") and
\* for what cannot be iterated
InAccounts(person, n) ==
    LET a == person.account_numbers
    IN  CASE a.t = "list" ->
                [exc |-> "none",
                 v |-> \E i \in 1..Len(a.items) : a.items[i] = JInt(n)]
          [] a.t = "dict" -> [exc |-> "none", v |-> FALSE]
          [] OTHER -> [exc |-> "TypeError", v |-> FALSE]

\* add_persons_transactions with the month test active
RECURSIVE add_persons_transactions_month(_, _, _, _)
add_persons_transactions_month(self_date, parsed_transactions, person, i) ==
    IF i > Len(parsed_transactions) THEN [exc |-> "none", person |-> person]
    ELSE LET m == InAccounts(person, parsed_transactions[i].account_number)
         IN  IF m.exc # "none" THEN [exc |-> m.exc, person |-> person]
             ELSE add_persons_transactions_month(self_date, parsed_transactions,
                    IF /\ m.v
                       /\ parsed_transactions[i].date.month = self_date.month
                    THEN add_transaction(person, parsed_transactions[i])
                    ELSE person,
                    i + 1)

\* Summary.add_persons_transactions: the loop over parsed_transactions from
\* index i on; self_date is Summary.date (the month test is commented out in
\* main.py).  The result is [exc, person]: the exception of the membership
\* test leaves the loop, with the person as the loop left it.
RECURSIVE add_persons_transactions(_, _, _, _)
add_persons_transactions(self_date, parsed_transactions, person, i) ==
    IF i > Len(parsed_transactions) THEN [exc |-> "none", person |-> person]
    ELSE LET m == InAccounts(person, parsed_transactions[i].account_number)
         IN  IF m.exc # "none" THEN [exc |-> m.exc, person |-> person]
             ELSE add_persons_transactions(self_date, parsed_transactions,
                    IF m.v
                    THEN add_transaction(person, parsed_transactions[i])
                    ELSE person,
                    i + 1)

\* the loop of Summary.add_transactions from person k on; what
\* add_persons_transactions appended to the list of person k is read by
\* every Person bound to that list
RECURSIVE AddTransactionsLoop(_, _, _, _)
AddTransactionsLoop(self_date, ppl, parsed_transactions, k) ==
    IF k > Len(ppl) THEN [exc |-> "none", people |-> ppl]
    ELSE LET res == add_persons_transactions(self_date, parsed_transactions,
                                             ppl[k], 1)
             done == ThroughList([ppl EXCEPT ![k] = res.person], k)
         IN  IF res.exc # "none" THEN [exc |-> res.exc, people |-> done]
             ELSE AddTransactionsLoop(self_date, done, parsed_transactions,
                                      k + 1)

\* Summary.add_transactions: for person in self.people; the result is
\* [exc, people], people being the roster as the call left it
Summary_add_transactions(self_date, ppl, parsed_transactions) ==
    AddTransactionsLoop(self_date, ppl, parsed_transactions, 1)

\* the inner loop without the test of the ignore reason
RECURSIVE AttributeToPeople_NoGate(_, _, _)
AttributeToPeople_NoGate(ppl, t, k) ==
    IF k > Len(ppl) THEN [exc |-> "none", people |-> ppl]
    ELSE LET m == InAccounts(ppl[k], t.account_number)
         IN  IF m.exc # "none" THEN [exc |-> m.exc, people |-> ppl]
             ELSE AttributeToPeople_NoGate(
                    IF m.v
                    THEN Person_add_transaction(ppl, k, t)
                    ELSE ppl,
                    t, k + 1)

\* the inner loop that stops at the first person whose accounts match
RECURSIVE AttributeToPeople_FirstOnly(_, _, _)
AttributeToPeople_FirstOnly(ppl, t, k) ==
    IF k > Len(ppl) THEN [exc |-> "none", people |-> ppl]
    ELSE LET m == InAccounts(ppl[k], t.account_number)
         IN  IF m.exc # "none" THEN [exc |-> m.exc, people |-> ppl]
             ELSE IF m.v /\ t.ignore = "NOTHING"
             THEN [exc |-> "none",
                   people |-> Person_add_transaction(ppl, k, t)]
             ELSE AttributeToPeople_FirstOnly(ppl, t, k + 1)

\* the inner loop of People.add_transactions: for p in self.people, from
\* person k on, for the one transaction t; "t.account_number in
\* p.account_numbers" is evaluated first and may raise
RECURSIVE AttributeToPeople(_, _, _)
AttributeToPeople(ppl, t, k) ==
    IF k > Len(ppl) THEN [exc |-> "none", people |-> ppl]
    ELSE LET m == InAccounts(ppl[k], t.account_number)
         IN  IF m.exc # "none" THEN [exc |-> m.exc, people |-> ppl]
             ELSE AttributeToPeople(
                    IF m.v /\ t.ignore = "NOTHING"
                    THEN Person_add_transaction(ppl, k, t)
                    ELSE ppl,
                    t, k + 1)

\* People.add_transactions: for t in transactions, from index i on; the
\* result is [exc, people]
RECURSIVE People_add_transactions(_, _, _)
People_add_transactions(ppl, transactions, i) ==
    IF i > Len(transactions) THEN [exc |-> "none", people |-> ppl]
    ELSE LET res == AttributeToPeople(ppl, transactions[i], 1)
         IN  IF res.exc # "none" THEN res
             ELSE People_add_transactions(res.people, transactions, i + 1)

\* add_transactions of the revision
add_transactions(r, self_date, ppl, transactions) ==
    IF r = "main" THEN Summary_add_transactions(self_date, ppl, transactions)
    ELSE People_add_transactions(ppl, transactions, 1)

\* Summary.calculate_2_person_difference(person1, person2, category): the
\* value returned
calculate_2_person_difference(r, person1, person2, category) ==
    FloatSub(calculate_expenses(r, person1, category),
             calculate_expenses(r, person2, category))

----------------------------------------------------------------------------
(* The observed date range (main_v2.py).  Each operator returns [exc, v]:   *)
(* min() and max() raise ValueError on an empty iterable.                   *)

\* d1 < d2 for datetime.date values
DateLess(d1, d2) ==
    \/ d1.year < d2.year
    \/ d1.year = d2.year /\ d1.month < d2.month
    \/ d1.year = d2.year /\ d1.month = d2.month /\ d1.day < d2.day

\* min(dates) / max(dates) for a sequence of dates
MinDate(dates) ==
    IF Len(dates) = 0 THEN [exc |-> "ValueError", v |-> NoDate]
    ELSE [exc |-> "none",
          v |-> dates[CHOOSE i \in 1..Len(dates) :
                          \A j \in 1..Len(dates) : ~DateLess(dates[j], dates[i])]]

MaxDate(dates) ==
    IF Len(dates) = 0 THEN [exc |-> "ValueError", v |-> NoDate]
    ELSE [exc |-> "none",
          v |-> dates[CHOOSE i \in 1..Len(dates) :
                          \A j \in 1..Len(dates) : ~DateLess(dates[i], dates[j])]]

\* Person.get_oldest_transaction / Person.get_newest_transaction
get_oldest_transaction(person) ==
    MinDate([k \in 1..Len(person.transactions) |-> person.transactions[k].date])

get_newest_transaction(person) ==
    MaxDate([k \in 1..Len(person.transactions) |-> person.transactions[k].date])

\* People.get_oldest_transaction: min over the generator of the persons'
\* oldest dates; the ValueError of a person with an empty ledger leaves the
\* generator and the call
People_get_oldest_transaction(ppl) ==
    IF \E i \in 1..Len(ppl) : get_oldest_transaction(ppl[i]).exc # "none"
    THEN [exc |-> "ValueError", v |-> NoDate]
    ELSE MinDate([i \in 1..Len(ppl) |-> get_oldest_transaction(ppl[i]).v])

\* People.get_newest_transaction
People_get_newest_transaction(ppl) ==
    IF \E i \in 1..Len(ppl) : get_newest_transaction(ppl[i]).exc # "none"
    THEN [exc |-> "ValueError", v |-> NoDate]
    ELSE MaxDate([i \in 1..Len(ppl) |-> get_newest_transaction(ppl[i]).v])

----------------------------------------------------------------------------
(* EmailGenerator (main.py).  The HTML text is modelled by its table: the   *)
(* row of the <thead> and the rows of the <tbody>, each row the sequence of *)
(* its cells in document order, each cell its tag and its text.             *)

\* two decimal digits, zero padded
TwoDigits(n) == IF n < 10 THEN "0" \o ToString(n) ELSE ToString(n)

\* the cents "{0:.2f}" keeps of a float x >= 0: the cent nearest to x.  A
\* decimal that ends in half a cent goes to the side the float is on; when
\* the float is the decimal exactly (0.125, 0.375, ...), the half goes to the
\* even cent.
RoundedCents(x) ==
    LET q == x.a \div 10
        u == x.a % 10
    IN  IF u < 5 THEN q
        ELSE IF u > 5 \/ x.r > 0 THEN q + 1
        ELSE IF x.r < 0 \/ q % 2 = 0 THEN q
        ELSE q + 1

\* format_money_helper(num): MONEY_FORMAT.format(num) with MONEY_FORMAT =
\* "{0:.2f}": the magnitude of the float is rounded to cents and the sign of
\* num is kept, also before 0.00
format_money_helper(num) ==
    LET cents == RoundedCents(FloatAbs(num))
    IN  (IF FloatIsNegative(num) THEN "-" ELSE "")
            \o ToString(cents \div 100) \o "." \o TwoDigits(cents % 100)

\* summary.date.strftime(DISPLAY_DATE_FORMAT): DISPLAY_DATE_FORMAT is "%m/%y"
\* in main.py and "%m/%d/%y" in lambda_function/src/main.py and main_v2.py
strftime(r, d) ==
    IF r = "main"
    THEN TwoDigits(d.month) \o "/" \o TwoDigits(d.year % 100)
    ELSE TwoDigits(d.month) \o "/" \o TwoDigits(d.day) \o "/"
             \o TwoDigits(d.year % 100)

Th(text) == [tag |-> "th", text |-> text]
Td(text) == [tag |-> "td", text |-> text]

\* the header row without its leading blank cell
HeaderRow_noBlank(Cat) ==
    [k \in 1..Len(Cat) |-> Th(Cat[k][2])] \o <<Th("Total")>>

\* the <tr> of the <thead>: <th></th>, one <th> per member of Category (Cat,
\* the Category of the module), <th>Total</th>
HeaderRow(Cat) ==
    <<Th("")>> \o [k \in 1..Len(Cat) |-> Th(Cat[k][2])] \o <<Th("Total")>>

\* the <tr> of a person: the name, the expenses of each Category, the total
PersonRow(r, Cat, person) ==
    <<Td(person.name)>>
        \o [k \in 1..Len(Cat) |->
               Td(format_money_helper(
                      calculate_expenses(Engine(r), person, Cat[k][1])))]
        \o <<Td(format_money_helper(
                    calculate_expenses(Engine(r), person, None)))>>

\* the <tr> of the difference of the first two people of the roster
DifferenceRow(r, Cat, ppl) ==
    <<Td("Difference (" \o ppl[1].name \o " - " \o ppl[2].name \o ")")>>
        \o [k \in 1..Len(Cat) |->
               Td(format_money_helper(
                      calculate_2_person_difference(
                          Engine(r), ppl[1], ppl[2], Cat[k][1])))]
        \o <<Td(format_money_helper(
                    calculate_2_person_difference(Engine(r), ppl[1], ppl[2],
                                                  None)))>>

\* the difference row emitted for every roster of two or more people
DifferenceRows_atLeastTwo(r, Cat, ppl) ==
    IF Len(ppl) >= 2 THEN <<DifferenceRow(r, Cat, ppl)>> ELSE <<>>

\* "if len(summary.people) == 2": the rows the branch adds to the <tbody>
DifferenceRows(r, Cat, ppl) ==
    IF Len(ppl) = 2 THEN <<DifferenceRow(r, Cat, ppl)>> ELSE <<>>

\* the <table> of the email: the row of its <thead>, the rows of its <tbody>
Table(r, Cat, ppl) ==
    [thead |-> HeaderRow(Cat),
     tbody |-> [i \in 1..Len(ppl) |-> PersonRow(r, Cat, ppl[i])]
               \o DifferenceRows(r, Cat, ppl)]

\* EmailGenerator.generate_summary_email(summary): the tuple returned; Cat is
\* the Category of the module
generate_summary_email(r, Cat, summary) ==
    [source |-> summary.owner,
     to_addresses |-> [i \in 1..Len(summary.people) |-> summary.people[i].email],
     subject |-> "Monthly Summary - " \o strftime(r, summary.date),
     html |-> Table(r, Cat, summary.people)]

----------------------------------------------------------------------------
(* The queries as calls on the Persons of an engine.  Each operator returns *)
(* [value, people]: what the call returns and the list of Persons as the    *)
(* call leaves it.                                                          *)

\* the identities of the lists the Persons of a list are bound to
Ledgers(ppl) == {ppl[i].ledger : i \in 1..Len(ppl)}

\* calculate_expenses that first narrows the ledger to the category
\* ("self.transactions = [t for t in self.transactions if t.category ==
\* category]", then the sum of what is left): self.transactions is bound to
\* a new list of the matching items
Person_calculate_expenses_narrowing(r, ppl, i, category) ==
    [value |-> calculate_expenses(r, ppl[i], category),
     people |-> IF category = None THEN ppl
                ELSE [ppl EXCEPT
                        ![i].ledger = NewList(Ledgers(ppl)),
                        ![i].transactions =
                            SelectSeq(@, LAMBDA t : t.category = category)]]

\* ppl[i].calculate_expenses(category): sum() drains a generator that reads
\* self.transactions and, of each item, category and amount; the method
\* binds no attribute and calls nothing on the list but its iteration
Person_calculate_expenses(r, ppl, i, category) ==
    [value |-> calculate_expenses(r, ppl[i], category), people |-> ppl]

\* the difference with its operands exchanged
Summary_calculate_2_person_difference_swapped(r, ppl, i, j, category) ==
    LET first == Person_calculate_expenses(r, ppl, i, category)
        second == Person_calculate_expenses(r, first.people, j, category)
    IN  [value |-> FloatSub(second.value, first.value),
         people |-> second.people]

\* summary.calculate_2_person_difference(ppl[i], ppl[j], category):
\* person1.calculate_expenses(category) is called first,
\* person2.calculate_expenses(category) on what that call has left, and the
\* second float is subtracted from the first
Summary_calculate_2_person_difference(r, ppl, i, j, category) ==
    LET first == Person_calculate_expenses(r, ppl, i, category)
        second == Person_calculate_expenses(r, first.people, j, category)
    IN  [value |-> FloatSub(first.value, second.value),
         people |-> second.people]

\* the calls generate_summary_email makes of the engine, in the order of
\* the loops: for each person calculate_expenses per member of Category and
\* then for all, and for two people calculate_2_person_difference per
\* member and then for all
EmailCalls(Cat, ppl) ==
    LET args == [k \in 1..Len(Cat) |-> Cat[k][1]] \o <<None>>
        m == Len(args)
    IN  [k \in 1..(Len(ppl) * m) |->
            [op |-> "calculate_expenses", p1 |-> ((k - 1) \div m) + 1,
             p2 |-> 0, category |-> args[((k - 1) % m) + 1]]]
        \o (IF Len(ppl) = 2
            THEN [k \in 1..Len(args) |->
                    [op |-> "calculate_2_person_difference", p1 |-> 1,
                     p2 |-> 2, category |-> args[k]]]
            ELSE <<>>)

\* the list of Persons after the calls from the k-th on (of no Persons no
\* call is made)
RECURSIVE AfterCalls(_, _, _, _)
AfterCalls(r, ppl, calls, k) ==
    IF ppl = <<>> \/ k > Len(calls) THEN ppl
    ELSE LET c == calls[k]
             res == IF c.op = "calculate_expenses"
                    THEN Person_calculate_expenses(r, ppl, c.p1, c.category)
                    ELSE Summary_calculate_2_person_difference(
                             r, ppl, c.p1, c.p2, c.category)
         IN  AfterCalls(r, res.people, calls, k + 1)

\* EmailGenerator.generate_summary_email(summary) as a call on the Summary:
\* the tuple returned and the Persons as the calls of the loops leave them;
\* the function itself assigns to its locals only
EmailGenerator_generate_summary_email(r, Cat, summary) ==
    [value |-> generate_summary_email(r, Cat, summary),
     people |-> AfterCalls(Engine(r), summary.people,
                           EmailCalls(Cat, summary.people), 1)]

\* people.get_oldest_transaction() / get_newest_transaction(): min() and
\* max() drain generators over self.people and self.transactions
People_get_date(op, ppl) ==
    [value |-> IF op = "get_oldest_transaction"
               THEN People_get_oldest_transaction(ppl)
               ELSE People_get_newest_transaction(ppl),
     people |-> ppl]

\* the query q = [op, p1, p2, category] made of the engine: [value, people]
Query(r, q, o, d, ppl) ==
    CASE q.op = "calculate_expenses" ->
             Person_calculate_expenses(r, ppl, q.p1, q.category)
      [] q.op = "calculate_2_person_difference" ->
             Summary_calculate_2_person_difference(r, ppl, q.p1, q.p2,
                                                   q.category)
      [] q.op = "generate_summary_email" ->
             EmailGenerator_generate_summary_email(
                 r, Category(r), [owner |-> o, date |-> d, people |-> ppl])
      [] OTHER -> People_get_date(q.op, ppl)

----------------------------------------------------------------------------
(* CSV texts handed to the engine *)

RowTikicat17 ==
    <<"2023-09-15", "TIKICAT BAR", "1234", "17", "Dining & Drinks", "">>

EngineRowSamples ==
    {RowMadcats, RowTikicat, RowTikicat17,
     With(RowTikicat, 6, "budget"),
     With(RowMadcats, 6, "everything"),
     With(With(RowTikicat, 3, "9999"), 4, "0.015"),
     Take(RowTikicat, 2)}

EngineContents ==
    {<<GarbageHeader>>} \cup
    {<<FullHeader>> \o rows : rows \in SeqUpTo(EngineRowSamples, MaxEngineRows)}

\* the names of the members of Category, and None for "no category"
CategoryNames(r) == {Category(r)[i][1] : i \in 1..Len(Category(r))}
CategoryArgs(r) == CategoryNames(r) \cup {None}

\* the category arguments of the calls made of an engine: None, the
\* categories of the sample rows (DINING, GROCERIES) and one no sample row
\* carries (PETS)
QueryCategoryArgs(r) == {Category(r)[i][1] : i \in 1..3} \cup {None}

----------------------------------------------------------------------------
(* The state machine *)

NoRet == [op |-> "none", p1 |-> 0, p2 |-> 0, category |-> None, value |-> 0]

NoCall == [op |-> "none"]

\* lambda_function/src/main.py before its import: Category is not bound
Unloaded == [loaded |-> FALSE, Category |-> <<>>]

Init ==
    /\ rev \in Revs
    /\ pc = "new"
    /\ config = JNone
    /\ cfgsrc = "none"
    /\ owner = JNone
    /\ date = NoDate
    /\ people = <<>>
    /\ content = <<>>
    /\ parsed = <<>>
    /\ exc = "none"
    /\ ret = NoRet
    /\ runs = <<>>
    /\ call = NoCall
    /\ module = Unloaded

\* a call of SpreadsheetParser.parse (get_transactions in main_v2) on its own
Parse ==
    /\ pc = "new"
    /\ \E c \in ParseContents :
         LET res == parse(rev, Category(rev), c)
         IN  /\ content' = c
             /\ parsed' = res.results
             /\ exc' = res.exc
    /\ pc' = "parse_done"
    /\ UNCHANGED <<rev, config, cfgsrc, owner, date, people, ret>>
    /\ UNCHANGED <<runs, call, module>>

\* Summary(date, config) in main.py, for what the bucket holds under CONFIG
Construct ==
    /\ pc = "new"
    /\ rev = "main"
    /\ \E c \in Configs, d \in ReportDates, stored \in StoredConfigs :
         LET res == SummaryInit(c, stored, {})
         IN  /\ config' = c
             /\ cfgsrc' = res.src
             /\ exc' = res.exc
             /\ pc' = IF res.exc = "none" THEN "constructed" ELSE "failed"
             /\ owner' = res.owner
             /\ people' = res.people
             /\ date' = IF res.exc = "none" THEN d ELSE NoDate
    /\ UNCHANGED <<rev, content, parsed, ret>>
    /\ UNCHANGED <<runs, call, module>>

\* People(people) in main_v2.py, for a list of Person objects
ConstructPeople ==
    /\ pc = "new"
    /\ rev = "v2"
    /\ \E c \in GoodConfigs :
         /\ people' = initialize_people(Subscript(c, "People").v, {}).people
         /\ config' = c
    /\ cfgsrc' = "supplied"
    /\ pc' = "constructed"
    /\ UNCHANGED <<rev, owner, date, content, parsed, exc, ret>>
    /\ UNCHANGED <<runs, call, module>>

\* Summary.add_transactions_from_spreadsheet(spreadsheet_content) in main.py;
\* get_transactions followed by People.add_transactions in main_v2.py
AddTransactionsFromSpreadsheet ==
    /\ pc = "constructed"
    /\ \E c \in EngineContents :
         LET res == parse(rev, Category(rev), c)
             added == add_transactions(rev, date, people, res.results)
         IN  /\ content' = c
             /\ parsed' = res.results
             /\ exc' = IF res.exc # "none" THEN res.exc ELSE added.exc
             /\ pc' = IF res.exc = "none" /\ added.exc = "none"
                      THEN "populated" ELSE "failed"
             /\ people' = IF res.exc = "none" THEN added.people ELSE people
    /\ ret' = NoRet
    /\ UNCHANGED <<rev, config, cfgsrc, owner, date>>
    /\ UNCHANGED <<runs, call, module>>

\* person.calculate_expenses(category) for a person of the roster
CalculateExpenses ==
    /\ pc \in {"constructed", "populated"}
    /\ call = NoCall
    /\ \E i \in 1..Len(people), c \in QueryCategoryArgs(rev) :
         \E res \in {Person_calculate_expenses(rev, people, i, c)} :
             /\ ret' = [op |-> "calculate_expenses", p1 |-> i, p2 |-> 0,
                        category |-> c, value |-> res.value]
             /\ people' = res.people
    /\ UNCHANGED <<rev, pc, config, cfgsrc, owner, date, content, parsed, exc>>
    /\ UNCHANGED <<runs, call, module>>

\* summary.calculate_2_person_difference(person1, person2, category)
Calculate2PersonDifference ==
    /\ pc \in {"constructed", "populated"}
    /\ call = NoCall
    /\ rev = "main"
    /\ \E i \in 1..Len(people), j \in 1..Len(people),
          c \in QueryCategoryArgs(rev) :
         \E res \in {Summary_calculate_2_person_difference(rev, people, i, j, c)} :
             /\ ret' = [op |-> "calculate_2_person_difference", p1 |-> i,
                        p2 |-> j, category |-> c, value |-> res.value]
             /\ people' = res.people
    /\ UNCHANGED <<rev, pc, config, cfgsrc, owner, date, content, parsed, exc>>
    /\ UNCHANGED <<runs, call, module>>

\* EmailGenerator.generate_summary_email(summary) on the Summary
GenerateSummaryEmail ==
    /\ pc \in {"constructed", "populated"}
    /\ call = NoCall
    /\ rev = "main"
    /\ \E res \in {EmailGenerator_generate_summary_email(
                      rev, Category(rev),
                      [owner |-> owner, date |-> date, people |-> people])} :
           /\ ret' = [op |-> "generate_summary_email", p1 |-> 0, p2 |-> 0,
                      category |-> None, value |-> res.value]
           /\ people' = res.people
    /\ UNCHANGED <<rev, pc, config, cfgsrc, owner, date, content, parsed, exc>>
    /\ UNCHANGED <<runs, call, module>>

\* people.get_oldest_transaction() and people.get_newest_transaction()
GetDateRange ==
    /\ pc \in {"constructed", "populated"}
    /\ call = NoCall
    /\ rev = "v2"
    /\ \E op \in {"get_oldest_transaction", "get_newest_transaction"} :
         \E res \in {People_get_date(op, people)} :
             /\ ret' = [op |-> op, p1 |-> 0, p2 |-> 0, category |-> None,
                        value |-> res.value]
             /\ people' = res.people
    /\ UNCHANGED <<rev, pc, config, cfgsrc, owner, date, content, parsed, exc>>
    /\ UNCHANGED <<runs, call, module>>

Next ==
    \/ Parse
    \/ Construct
    \/ ConstructPeople
    \/ AddTransactionsFromSpreadsheet
    \/ CalculateExpenses
    \/ Calculate2PersonDifference
    \/ GenerateSummaryEmail
    \/ GetDateRange

Spec == Init /\ [][Next]_vars

----------------------------------------------------------------------------
(* The ledgers of an engine under calls of its methods, one after another *)

MaxAdds == 2          \* calls that add to the ledgers of one engine

LedgerConfigs == {ConfigOf(<<George, TootieShared>>),
                  ConfigOf(<<George, Tootie, Alex>>)}

LedgerContents ==
    {<<FullHeader, RowMadcats, RowTikicat>>,
     <<FullHeader, RowTikicat>>,
     <<FullHeader, RowTikicat, With(RowTikicat, 6, "budget"), RowMadcats>>,
     <<FullHeader, RowMadcats, RowMadcats>>}

\* the Person objects the caller of People(people) builds from the entries
\* of a configuration: Person(name, email, accounts, transactions) of
\* main_v2.py is bound to the list it is given, and the caller gives every
\* Person a list of its own or one list to all of them
CallerPeople(entries, one) ==
    [i \in 1..Len(entries) |->
        Person_v2(Subscript(entries[i], "Name").v.s,
                  Subscript(entries[i], "Email").v.s,
                  Subscript(entries[i], "Accounts").v,
                  ListObject(IF one THEN 1 ELSE i, <<>>))]

\* the engines of a configuration before anything is added: Summary(date,
\* config) in main.py, People(people) in main_v2.py
BuiltPeople(r, c) ==
    IF r = "main" THEN {SummaryInit(c, StoredJSON(StoredConfig), {}).people}
    ELSE {CallerPeople(Subscript(c, "People").v.items, one) :
             one \in BOOLEAN}

\* an engine as constructed, or populated once from a spreadsheet
\* (add_transactions_from_spreadsheet in main.py, get_transactions and
\* add_transactions in main_v2.py), and the list the parser returned
InitLedger ==
    /\ rev \in Revs
    /\ pc \in {"constructed", "populated"}
    /\ config \in LedgerConfigs
    /\ cfgsrc = "supplied"
    /\ owner = IF rev = "main"
               THEN SummaryInit(config, StoredJSON(StoredConfig), {}).owner
               ELSE JNone
    /\ date = IF rev = "main" THEN [year |-> 2023, month |-> 9, day |-> 23]
              ELSE NoDate
    /\ content \in LedgerContents
    /\ parsed = parse(rev, Category(rev), content).results
    /\ \E built \in BuiltPeople(rev, config) :
          people = IF pc = "populated"
                   THEN add_transactions(rev, date, built, parsed).people
                   ELSE built
    /\ exc = "none"
    /\ ret = NoRet
    /\ runs = <<>>
    /\ call = NoCall
    /\ module = Unloaded

\* the n-th call on the engine may be made
CallsLeft == IF call.op = "none" THEN TRUE ELSE call.n < MaxAdds
CallNumber == IF call.op = "none" THEN 1 ELSE call.n + 1

\* summary.add_transactions(parsed_transactions) and
\* people.add_transactions(transactions), with the list the parser returned
AddTransactions ==
    /\ pc \in {"constructed", "populated"}
    /\ CallsLeft
    /\ LET res == add_transactions(rev, date, people, parsed)
       IN  /\ people' = res.people
           /\ exc' = res.exc
    /\ pc' = "populated"
    /\ call' = [op |-> "add_transactions", person |-> 0,
                transaction |-> NoTransaction, n |-> CallNumber]
    /\ UNCHANGED <<rev, config, cfgsrc, owner, date, content, parsed, ret,
                   runs, module>>

\* summary.add_persons_transactions(parsed_transactions, person) of main.py
\* for a Person of the roster, with the list the parser returned
AddPersonsTransactions ==
    /\ pc \in {"constructed", "populated"}
    /\ rev = "main"
    /\ CallsLeft
    /\ \E i \in 1..Len(people) :
         LET res == add_persons_transactions(date, parsed, people[i], 1)
         IN  /\ people' = ThroughList([people EXCEPT ![i] = res.person], i)
             /\ exc' = res.exc
             /\ call' = [op |-> "add_persons_transactions", person |-> i,
                         transaction |-> NoTransaction, n |-> CallNumber]
    /\ UNCHANGED <<rev, pc, config, cfgsrc, owner, date, content, parsed, ret,
                   runs, module>>

\* person.add_transaction(transaction) for a Person of the roster and a
\* Transaction the parser returned
AddTransaction ==
    /\ pc \in {"constructed", "populated"}
    /\ CallsLeft
    /\ \E i \in 1..Len(people), k \in 1..Len(parsed) :
         /\ people' = Person_add_transaction(people, i, parsed[k])
         /\ call' = [op |-> "add_transaction", person |-> i,
                     transaction |-> parsed[k], n |-> CallNumber]
    /\ UNCHANGED <<rev, pc, config, cfgsrc, owner, date, content, parsed, exc,
                   ret, runs, module>>

NextLedger ==
    \/ AddTransactions
    \/ AddPersonsTransactions
    \/ AddTransaction

SpecLedger == InitLedger /\ [][NextLedger]_vars

----------------------------------------------------------------------------
(* The queries of an engine, each followed by the same call once more *)

\* the call recorded in ret made again, on the engine as the call left it
CallAgain ==
    /\ pc \in {"constructed", "populated"}
    /\ ret.op # "none"
    /\ call = NoCall
    /\ \E res \in {Query(rev, ret, owner, date, people)} :
           /\ call' = [op |-> "again", value |-> res.value]
           /\ people' = res.people
    /\ UNCHANGED <<rev, pc, config, cfgsrc, owner, date, content, parsed, exc,
                   ret, runs, module>>

NextQuery ==
    \/ CalculateExpenses
    \/ Calculate2PersonDifference
    \/ GenerateSummaryEmail
    \/ GetDateRange
    \/ CallAgain

SpecQuery == InitLedger /\ [][NextQuery]_vars

----------------------------------------------------------------------------
(* Runs of the entry point: lambda_handler(event, context) and              *)
(* analyze_file(file_path).  A bucket name and an object key are sequences  *)
(* of tokens; "s3://" and "/" are tokens of their own.                      *)

\* date.today()
Today == [year |-> 2023, month |-> 9, day |-> 23]

\* the tokens that match \d{4}-\d{2}-\d{2}, with the outcome of strptime
DateTokens ==
    << <<"2023-09-23", [exc |-> "none", v |-> [year |-> 2023, month |-> 9, day |-> 23]]>>,
       <<"2022-01-31", [exc |-> "none", v |-> [year |-> 2022, month |-> 1, day |-> 31]]>>,
       <<"2023-13-45", [exc |-> "ValueError", v |-> NoDate]>> >>

\* the last match of the pattern instead of the first
parse_date_from_filename_last(filename) ==
    LET hits == {i \in 1..Len(filename) :
                    \E k \in 1..Len(DateTokens) : DateTokens[k][1] = filename[i]}
    IN  IF hits = {} THEN [exc |-> "AttributeError", v |-> NoDate]
        ELSE Lookup(DateTokens,
                    filename[CHOOSE i \in hits : \A j \in hits : i >= j]).v

\* a date that is returned where the filename holds none
parse_date_from_filename_defaulting(filename) ==
    LET hits == {i \in 1..Len(filename) :
                    \E k \in 1..Len(DateTokens) : DateTokens[k][1] = filename[i]}
    IN  IF hits = {} THEN [exc |-> "none", v |-> Today]
        ELSE Lookup(DateTokens,
                    filename[CHOOSE i \in hits : \A j \in hits : i <= j]).v

\* parse_date_from_filename(filename): strptime of the first match of the
\* pattern; AttributeError when nothing matches (search returns None)
parse_date_from_filename(filename) ==
    LET hits == {i \in 1..Len(filename) :
                    \E k \in 1..Len(DateTokens) : DateTokens[k][1] = filename[i]}
    IN  IF hits = {} THEN [exc |-> "AttributeError", v |-> NoDate]
        ELSE Lookup(DateTokens,
                    filename[CHOOSE i \in hits : \A j \in hits : i <= j]).v

\* lambda_handler: file_path = f"s3://{bucket}/{key}"
FilePath(bucket, key) == <<"s3://">> \o bucket \o <<"/">> \o key

\* analyze_file: bucket, key = file_path.replace("s3://", "").split("/", 1);
\* ValueError when the split yields one part only
SplitPath(file_path) ==
    LET stripped == SelectSeq(file_path, LAMBDA t : t # "s3://")
        slashes == {i \in 1..Len(stripped) : stripped[i] = "/"}
    IN  IF slashes = {}
        THEN [exc |-> "ValueError", bucket |-> <<>>, key |-> <<>>]
        ELSE LET p == CHOOSE i \in slashes : \A j \in slashes : i <= j
             IN  [exc |-> "none",
                  bucket |-> SubSeq(stripped, 1, p - 1),
                  key |-> SubSeq(stripped, p + 1, Len(stripped))]

\* read_s3_file(bucket, key) in a store that holds the object of the event
\* and, in the same bucket, the objects of run.others: ClientError when
\* there is no object of that bucket and key
read_s3_file(run, bucket, key) ==
    IF run.object.exists /\ bucket = run.bucket /\ key = run.key
    THEN [exc |-> "none", v |-> run.object.body]
    ELSE IF bucket = run.bucket /\ \E o \in run.others : o.key = key
    THEN [exc |-> "none", v |-> (CHOOSE o \in run.others : o.key = key).body]
    ELSE [exc |-> "ClientError", v |-> <<>>]

\* CONFIG_PATH of lambda_function/src/main.py
CONFIG_PATH == "config\\config.json"

\* load_config(config_path) of lambda_function/src/main.py: config_path is
\* the argument (None: CONFIG_PATH), stored is the file at that path.  The
\* result is [exc, v]: the document json.load returns, FileNotFoundError
\* when the file is not there, JSONDecodeError when it is not JSON.
load_config_file(config_path, stored) ==
    LET path == IF config_path = None THEN CONFIG_PATH ELSE config_path
    IN  IF stored.kind = "absent"
        THEN [exc |-> "FileNotFoundError", v |-> JNone, path |-> path]
        ELSE IF stored.kind = "text"
        THEN [exc |-> "JSONDecodeError", v |-> JNone, path |-> path]
        ELSE [exc |-> "none", v |-> stored.doc, path |-> path]

\* what the Enum machinery makes of a name: "mro" and "" are refused, a
\* _sunder_ name is refused, a __dunder__ name becomes no member
EnumNameKind(name) ==
    CASE name \in {"mro", ""} -> "invalid"
      [] name \in {"_x_"} -> "sunder"
      [] name \in {"__x__"} -> "dunder"
      [] OTHER -> "member"

\* Enum("Category", mapping): ValueError for a name that is refused;
\* otherwise one member per name, in order, except that a name whose value
\* an earlier member already has becomes an alias of that member.  The
\* result is [exc, members, names]: the members as <<name, value>> and all
\* the names that can be looked up (__members__)
Enum(pairs) ==
    LET kind(i) == EnumNameKind(pairs[i][1])
        fresh(i) == /\ kind(i) = "member"
                    /\ \A j \in 1..(i - 1) :
                          kind(j) = "member" => pairs[j][2].s # pairs[i][2].s
        idx == SelectSeq([i \in 1..Len(pairs) |-> i], fresh)
        named == SelectSeq([i \in 1..Len(pairs) |-> i],
                           LAMBDA i : kind(i) = "member")
    IN  IF \E i \in 1..Len(pairs) : kind(i) \in {"invalid", "sunder"}
        THEN [exc |-> "ValueError", members |-> <<>>, names |-> <<>>]
        ELSE [exc |-> "none",
              members |-> [k \in 1..Len(idx) |->
                              <<pairs[idx[k]][1], pairs[idx[k]][2].s>>],
              names |-> [k \in 1..Len(named) |-> pairs[named[k]][1]]]

\* build_category_enum(config): conf is the argument, None standing for
\* load_config(), the document of the configuration file (stored is the
\* file at CONFIG_PATH)
build_category_enum(conf, stored) ==
    LET none == [exc |-> "none", members |-> <<>>, names |-> <<>>]
        loaded == IF conf.t = "none" THEN load_config_file(None, stored)
                  ELSE [exc |-> "none", v |-> conf]
        categories == Subscript(loaded.v, "Categories")
    IN  IF loaded.exc # "none" THEN [none EXCEPT !.exc = loaded.exc]
        ELSE IF categories.exc # "none"
        THEN [none EXCEPT !.exc = categories.exc]
        ELSE IF categories.v.t # "dict" THEN [none EXCEPT !.exc = "TypeError"]
        ELSE IF \E i \in 1..Len(categories.v.pairs) :
                    categories.v.pairs[i][2].t # "str"
        THEN [none EXCEPT !.exc = "TypeError"]
        ELSE Enum(categories.v.pairs)

\* send_email that logs the ClientError and returns
send_email_swallowing(ses, message) ==
    [exc |-> "none", accepted |-> IF ses = "ok" THEN <<message>> ELSE <<>>]

\* send_email(source, to_addresses, subject, html_body): the messages SES
\* accepted; the ClientError of ses.send_email is logged and raised again
send_email(ses, message) ==
    IF ses = "ok" THEN [exc |-> "none", accepted |-> <<message>>]
    ELSE [exc |-> "ClientError", accepted |-> <<>>]

NoEmail == [source |-> JNone, to_addresses |-> <<>>, subject |-> "",
            html |-> [thead |-> <<>>, tbody |-> <<>>]]

\* a run before its first step: the event (bucket, key), what the stores
\* hold (object, cfg), how SES answers, and the state of the run.  Category
\* is the Category of the module: the class of main.py and of main_v2.py,
\* and in lambda_function/src/main.py a name the import has yet to bind
NewRun(r, bucket, key, object, cfg, ses) ==
    [rev |-> r, bucket |-> bucket, key |-> key, object |-> object,
     others |-> {}, cfg |-> cfg, ses |-> ses,
     Category |-> IF r = "lambda" THEN <<>> ELSE Category(r),
     pc |-> "start", path |-> [bucket |-> <<>>, key |-> <<>>],
     file_content |-> <<>>, date |-> NoDate, owner |-> JNone,
     people |-> <<>>, email |-> NoEmail, exc |-> "none", accepted |-> <<>>]

Abort(run, e) == [run EXCEPT !.pc = "aborted", !.exc = e]

\* the body of lambda_function/src/main.py, which runs
\* "Category = build_category_enum()": an exception of it ends the process
\* before lambda_handler is defined
ImportStep(run) ==
    LET res == build_category_enum(JNone, run.cfg)
    IN  IF res.exc # "none" THEN Abort(run, res.exc)
        ELSE [run EXCEPT !.pc = "imported", !.Category = res.members]

\* the import of lambda_function/src/main.py for a run, in a process whose
\* module is mod: the body of a module runs at its first import only, and a
\* later run finds the names the first one bound.  The result is
\* [run, module].
Import(run, mod) ==
    IF mod.loaded
    THEN [run |-> [run EXCEPT !.pc = "imported", !.Category = mod.Category],
          module |-> mod]
    ELSE LET done == ImportStep(run)
         IN  [run |-> done,
              module |-> IF done.pc = "imported"
                         THEN [loaded |-> TRUE, Category |-> done.Category]
                         ELSE mod]

\* the run as its code reads the module-level names: Category is looked up
\* in the module at every use
Globals(run, mod) ==
    IF run.rev = "lambda" /\ mod.loaded
    THEN [run EXCEPT !.Category = mod.Category]
    ELSE run

\* lambda_handler and the first two statements of analyze_file
ReadStep(run) ==
    LET path == SplitPath(FilePath(run.bucket, run.key))
        res == read_s3_file(run, path.bucket, path.key)
    IN  IF path.exc # "none" THEN Abort(run, path.exc)
        ELSE IF res.exc # "none"
        THEN Abort([run EXCEPT !.path = [bucket |-> path.bucket,
                                         key |-> path.key]], res.exc)
        ELSE [run EXCEPT !.pc = "read",
                         !.path = [bucket |-> path.bucket, key |-> path.key],
                         !.file_content = res.v]

\* summary_date = parse_date_from_filename(key)
DateStep(run) ==
    LET res == parse_date_from_filename(run.path.key)
    IN  IF res.exc # "none" THEN Abort(run, res.exc)
        ELSE [run EXCEPT !.pc = "dated", !.date = res.v]

\* the body of the handler of main_v2.py up to the populated group: the
\* configuration is read and checked, the members are built from its People
\* list and the transactions of the object are attributed to them
BuildStep_v2(run, live) ==
    LET init == SummaryInitFrom("OwnerEmail", JNone,
                                load_config(JNone, run.cfg), live)
        res == get_transactions(run.file_content)
        added == People_add_transactions(init.people, res.results, 1)
    IN  IF init.exc # "none" THEN Abort(run, init.exc)
        ELSE IF res.exc # "none" THEN Abort(run, res.exc)
        ELSE IF added.exc # "none" THEN Abort(run, added.exc)
        ELSE [run EXCEPT !.pc = "built",
                         !.owner = init.owner,
                         !.people = added.people]

\* SpreadsheetSummary(date, file_content): Summary.__init__ with the default
\* configuration, then add_transactions_from_spreadsheet; the date is
\* date.today() in main.py and the parsed date in lambda_function/src/main.py;
\* live holds the identities of the lists of the process
BuildStep(run, live) ==
    IF run.rev = "v2" THEN BuildStep_v2(run, live)
    ELSE
    LET d == IF run.rev = "main" THEN Today ELSE run.date
        init == IF run.rev = "main"
                THEN SummaryInitFrom("Owner", JNone,
                                     load_config(JNone, run.cfg), live)
                ELSE SummaryInitFrom("OwnerEmail", JNone,
                                     load_config_file(None, run.cfg), live)
        res == parse("main", run.Category, run.file_content)
        added == Summary_add_transactions(d, init.people, res.results)
    IN  IF init.exc # "none" THEN Abort(run, init.exc)
        ELSE IF res.exc # "none"
        THEN Abort(run, res.exc)
        ELSE IF added.exc # "none" THEN Abort(run, added.exc)
        ELSE [run EXCEPT !.pc = "built", !.date = d,
                         !.owner = init.owner,
                         !.people = added.people]

\* the email of main_v2.py: sent by the owner to the members, with the table
\* of the group as body and the observed date range in the subject
RenderStep_v2(run) ==
    LET oldest == People_get_oldest_transaction(run.people)
        newest == People_get_newest_transaction(run.people)
    IN  IF oldest.exc # "none" THEN Abort(run, oldest.exc)
        ELSE IF newest.exc # "none" THEN Abort(run, newest.exc)
        ELSE [run EXCEPT
                !.pc = "rendered",
                !.email =
                    [source |-> run.owner,
                     to_addresses |-> [i \in 1..Len(run.people) |->
                                          run.people[i].email],
                     subject |-> "Transactions Summary: "
                                     \o strftime("v2", oldest.v) \o " - "
                                     \o strftime("v2", newest.v),
                     html |-> Table("v2", run.Category, run.people)]]

\* EmailGenerator.generate_summary_email(summary)
RenderStep(run) ==
    IF run.rev = "v2" THEN RenderStep_v2(run)
    ELSE [run EXCEPT
            !.pc = "rendered",
            !.email = generate_summary_email(
                          run.rev, run.Category,
                          [owner |-> run.owner, date |-> run.date,
                           people |-> run.people])]

\* send_email(source, to_addresses, subject, html_body)
SendStep(run) ==
    LET res == send_email(run.ses, run.email)
    IN  IF res.exc # "none"
        THEN Abort([run EXCEPT !.accepted = @ \o res.accepted], res.exc)
        ELSE [run EXCEPT !.pc = "done", !.accepted = @ \o res.accepted]

\* the identities of the lists the Persons of the runs are bound to
LiveLists(rs) ==
    UNION {Ledgers(rs[q].people) : q \in DOMAIN rs}

\* the runs of a process once run r has added to the lists of its Persons:
\* a Person of another run that is bound to one of these lists reads what
\* the Person of run r reads
SeenByAll(rs, r) ==
    [q \in DOMAIN rs |->
        IF q = r THEN rs[q]
        ELSE LET mine == rs[r].people
                 theirs == rs[q].people
                 holder(j) == {i \in 1..Len(mine) :
                                  mine[i].ledger = theirs[j].ledger}
             IN  [rs[q] EXCEPT
                    !.people =
                        [j \in 1..Len(theirs) |->
                            IF holder(j) = {} THEN theirs[j]
                            ELSE [theirs[j] EXCEPT
                                    !.transactions =
                                        mine[CHOOSE i \in holder(j) : TRUE]
                                            .transactions]]]]

----------------------------------------------------------------------------
(* The events and the stores of a run *)

Bucket == <<"some_bucket">>

RunKeys ==
    {<<"2023-09-23", "T15_17_14.839Z-transactions.csv">>,
     <<"reports", "/", "2022-01-31", ".csv">>,
     <<"expenses_2021-12.csv">>,
     <<"test-key">>,
     <<"2023-13-45", ".csv">>}

RowMadcatsEntertainment == With(RowMadcats, 5, "Entertainment & Rec.")

\* the spreadsheet of the end-to-end scenario
ScenarioContent == <<FullHeader, RowMadcatsEntertainment, RowTikicat>>

\* texts that are not a table of transactions
UnparseableContents == {<<GarbageHeader>>, <<>>, <<GarbageHeader, GarbageHeader>>}

\* amounts that end in half a cent: 0.015 is a float below the half, 0.125
\* is the half exactly
HalfCentContent ==
    <<FullHeader, With(RowTikicat, 4, "0.015"),
      With(With(RowTikicat, 4, "0.125"), 5, "Groceries")>>

\* two amounts below one cent, in two categories
SubCentContent ==
    <<FullHeader, With(RowTikicat, 4, "0.004"),
      With(With(RowTikicat, 4, "0.004"), 5, "Groceries")>>

\* amounts whose float sums are not the floats of the decimal sums:
\* 17 - (17 + 0.015) is a float below -0.015, and 0.015 + 0.125 + 0.015 a
\* float above 0.155
RoundedDifferenceContent ==
    <<FullHeader, With(RowTikicat, 4, "17"),
      With(With(RowTikicat, 3, "1313"), 4, "17"),
      With(With(RowTikicat, 3, "1313"), 4, "0.015")>>

RoundedSumContent ==
    <<FullHeader, With(RowTikicat, 4, "0.015"), With(RowTikicat, 4, "0.125"),
      With(RowTikicat, 4, "0.015")>>

RunContents ==
    {ScenarioContent,
     SubCentContent,
     HalfCentContent,
     RoundedDifferenceContent,
     RoundedSumContent,
     <<FullHeader, RowTikicat>>,
     <<FullHeader, RowMadcats, RowTikicat17>>,
     <<FullHeader, Take(RowTikicat, 2)>>} \cup UnparseableContents

Object(body) == [exists |-> TRUE, body |-> body]
NoObject == [exists |-> FALSE, body |-> <<>>]

\* a configuration document without "Categories"
ConfigWith(ownerKey, entries) ==
    JDict(<< <<"People", JList(entries)>>,
             <<ownerKey, JStr("bebas@gmail.com")>> >>)

\* the key of the owner in the configuration of a revision
OwnerKey(r) == IF r = "main" THEN "Owner" ELSE "OwnerEmail"

\* the "Categories" of CONFIG in lambda_function/tests/test.py
TestCategories ==
    JDict(<< <<"DINING", JStr("Dining & Drinks")>>,
             <<"GROCERIES", JStr("Groceries")>>,
             <<"PETS", JStr("Pets")>>,
             <<"BILLS", JStr("Bills & Utilities")>>,
             <<"OTHER", JStr("R & T Shared")>> >>)

\* a "Categories" of two entries, one of them for the category of classes.py
ShortCategories ==
    JDict(<< <<"DINING", JStr("Dining & Drinks")>>,
             <<"ENTERTAINMENT", JStr("Entertainment & Rec.")>> >>)

\* the configuration document of a revision: the one of
\* lambda_function/src/main.py also holds the "Categories" its import reads
RunConfigOf(r, entries, categories) ==
    IF r = "lambda"
    THEN JDict(ConfigWith(OwnerKey(r), entries).pairs
                   \o << <<"Categories", categories>> >>)
    ELSE ConfigWith(OwnerKey(r), entries)

RunConfig(r, entries) == RunConfigOf(r, entries, TestCategories)

\* what the configuration store of a run may hold: documents, null, a text
\* that is not JSON, nothing
RunConfigs(r) ==
    {StoredJSON(RunConfig(r, <<George, Tootie>>)),
     StoredJSON(RunConfig(r, <<George>>)),
     StoredJSON(JDict(<< <<OwnerKey(r), JStr("bebas@gmail.com")>> >>)),
     StoredJSON(JNone),
     NotJSON,
     NotStored}
    \cup (IF r = "lambda"
          THEN {StoredJSON(ConfigWith(OwnerKey(r), <<George, Tootie>>)),
                StoredJSON(RunConfigOf(r, <<George, Tootie>>, ShortCategories)),
                StoredJSON(RunConfigOf(r, <<George, Tootie>>, JList(<<>>)))}
          ELSE {})

RunInits ==
    UNION {{NewRun(r, Bucket, k, o, c, ses) :
               k \in RunKeys,
               o \in {Object(b) : b \in RunContents} \cup {NoObject},
               c \in RunConfigs(r),
               ses \in {"ok", "ClientError"}} : r \in RunRevs}

\* the keys of the uploads that trigger the runs in flight together, by run
ConcurrentKeys ==
    << <<"2023-09-23", "T15_17_14.839Z-transactions.csv">>,
       <<"reports", "/", "2022-01-31", ".csv">>,
       <<"2023-09-23", ".csv">>,
       <<"2022-01-31", ".csv">> >>

\* the runs in flight together: one deployment (one revision, one
\* configuration, one bucket) serves the events of the uploads, each under
\* a key of its own; every run reads the same bucket
ConcurrentInits ==
    UNION {{[q \in 1..NumRuns |->
               [NewRun(r, Bucket, ConcurrentKeys[q], Object(bodies[q]),
                       StoredJSON(RunConfig(r, <<George, TootieShared>>)),
                       "ok")
                   EXCEPT !.others =
                       {[key |-> ConcurrentKeys[o], body |-> bodies[o]] :
                           o \in (1..NumRuns) \ {q}}]] :
              bodies \in [1..NumRuns ->
                             {ScenarioContent,
                              <<FullHeader, RowMadcats, RowTikicat17>>}]} :
           r \in {"main", "lambda"}}

----------------------------------------------------------------------------
(* The state machine of the runs *)

InitEngineIdle ==
    /\ rev = "main"
    /\ pc = "run"
    /\ config = JNone
    /\ cfgsrc = "none"
    /\ owner = JNone
    /\ date = NoDate
    /\ people = <<>>
    /\ content = <<>>
    /\ parsed = <<>>
    /\ exc = "none"
    /\ ret = NoRet
    /\ call = NoCall
    /\ module = Unloaded

\* one run
InitRun ==
    /\ InitEngineIdle
    /\ runs \in [{1} -> RunInits]

\* NumRuns runs
InitRuns ==
    /\ InitEngineIdle
    /\ runs \in ConcurrentInits

EngineIdle ==
    UNCHANGED <<rev, pc, config, cfgsrc, owner, date, people, content, parsed,
                exc, ret, call>>

\* "import main" for a run of lambda_function/src/main.py
ImportModule ==
    /\ \E r \in DOMAIN runs :
         /\ runs[r].pc = "start"
         /\ runs[r].rev = "lambda"
         /\ LET res == Import(runs[r], module)
            IN  /\ runs' = [runs EXCEPT ![r] = res.run]
                /\ module' = res.module
    /\ EngineIdle

ReadObject ==
    /\ \E r \in DOMAIN runs :
         /\ \/ runs[r].pc = "start" /\ runs[r].rev # "lambda"
            \/ runs[r].pc = "imported"
         /\ runs' = [runs EXCEPT ![r] = ReadStep(runs[r])]
    /\ EngineIdle
    /\ UNCHANGED module

ParseDateFromFilename ==
    /\ \E r \in DOMAIN runs :
         /\ runs[r].pc = "read"
         /\ runs[r].rev = "lambda"
         /\ runs' = [runs EXCEPT ![r] = DateStep(runs[r])]
    /\ EngineIdle
    /\ UNCHANGED module

\* SpreadsheetSummary(date, file_content) in run r: the constructor makes
\* the Persons and their lists among the lists the process holds, and
\* add_transactions appends to the lists of these Persons
BuildSummary ==
    /\ \E r \in DOMAIN runs :
         /\ \/ runs[r].pc = "read" /\ runs[r].rev # "lambda"
            \/ runs[r].pc = "dated"
         /\ runs' = SeenByAll(
                        [runs EXCEPT ![r] = BuildStep(Globals(runs[r], module),
                                                      LiveLists(runs))],
                        r)
    /\ EngineIdle
    /\ UNCHANGED module

RenderEmail ==
    /\ \E r \in DOMAIN runs :
         /\ runs[r].pc = "built"
         /\ runs' = [runs EXCEPT
                        ![r] = RenderStep(Globals(runs[r], module))]
    /\ EngineIdle
    /\ UNCHANGED module

SendEmail ==
    /\ \E r \in DOMAIN runs :
         /\ runs[r].pc = "rendered"
         /\ runs' = [runs EXCEPT ![r] = SendStep(runs[r])]
    /\ EngineIdle
    /\ UNCHANGED module

NextRun ==
    \/ ImportModule
    \/ ReadObject
    \/ ParseDateFromFilename
    \/ BuildSummary
    \/ RenderEmail
    \/ SendEmail

\* a single run, for every event and every content of the stores
SpecRun == InitRun /\ [][NextRun]_vars

\* runs in flight together, their steps interleaved in every order
SpecRuns == InitRuns /\ [][NextRun]_vars

\* object keys, some with "s3://" in them
StoreKeys ==
    {<<"2023-09-23", "T15_17_14.839Z-transactions.csv">>,
     <<"s3://", "2023-09-23", ".csv">>,
     <<"reports", "/", "s3://", "2022-01-31", ".csv">>}

\* a run for an event whose bucket holds a second object, under the key
\* other_key
NewRunInStore(r, key, body, other_key, other_body, cfg, ses) ==
    [NewRun(r, Bucket, key, Object(body), cfg, ses)
        EXCEPT !.others = {[key |-> other_key, body |-> other_body]}]

StoreInits ==
    UNION {{NewRunInStore(r, k, b, ok, ob, c, ses) :
               k \in StoreKeys,
               b \in {ScenarioContent, <<FullHeader, RowTikicat>>},
               ok \in {<<"2023-09-23", ".csv">>,
                       <<"reports", "/", "2022-01-31", ".csv">>},
               ob \in {<<FullHeader, RowMadcats, RowTikicat17>>},
               c \in {StoredJSON(RunConfig(r, <<George, Tootie>>)),
                      StoredJSON(RunConfig(r, <<George>>))},
               ses \in {"ok", "ClientError"}} : r \in RunRevs}

\* one run in a bucket of two objects
InitStore ==
    /\ InitEngineIdle
    /\ runs \in [{1} -> StoreInits]

SpecStore == InitStore /\ [][NextRun]_vars

----------------------------------------------------------------------------
(* Calls of single functions, each on arguments of its own *)

MaxKeyLen == 3        \* tokens of a filename or of an object key

\* the pieces filenames and object keys are made of
KeyTokens == {"2023-09-23", "2022-01-31", "2023-13-45", "expenses_2021-12",
              ".csv", "/", "s3://"}

Filenames == SeqUpTo(KeyTokens, MaxKeyLen)

\* bucket names hold neither "/" nor ":"
Buckets == {<<"some_bucket">>, <<"test-bucket">>}

\* no call has been made; each behaviour makes one
InitCalls ==
    /\ InitEngineIdle
    /\ runs = <<>>

CallsOnly ==
    UNCHANGED <<rev, pc, config, cfgsrc, owner, date, people, content, parsed,
                exc, ret, runs, module>>

\* parse_date_from_filename(filename)
CallParseDateFromFilename ==
    /\ call = NoCall
    /\ \E f \in Filenames :
         call' = [op |-> "parse_date_from_filename", filename |-> f,
                  result |-> parse_date_from_filename(f)]
    /\ CallsOnly

\* lambda_handler(event, context) up to the call of read_s3_file in
\* analyze_file: the result is the (bucket, key) read_s3_file is called with
CallLambdaHandler ==
    /\ call = NoCall
    /\ \E b \in Buckets, k \in Filenames :
         call' = [op |-> "lambda_handler", bucket |-> b, key |-> k,
                  result |-> SplitPath(FilePath(b, k))]
    /\ CallsOnly

\* a Person object handed to a method of People: at is its position in
\* self.people, 0 for an object that is not in the list ("p in self.people"
\* compares by identity, Person defines no __eq__)
PersonRef(at, person) == [at |-> at, person |-> person]

\* People.calculate_expenses_difference(p1, p2, category): the list of those
\* of p1, p2 that are in self.people is tested for emptiness; the bare raise
\* has no active exception, which is a RuntimeError
calculate_expenses_difference(ppl, p1, p2, category) ==
    IF SelectSeq(<<p1, p2>>, LAMBDA p : p.at \in 1..Len(ppl)) = <<>>
    THEN [exc |-> "RuntimeError", v |-> FloatZero]
    ELSE [exc |-> "none",
          v |-> FloatSub(calculate_expenses("v2", p1.person, category),
                         calculate_expenses("v2", p2.person, category))]

\* the rosters of main_v2.py, populated
PopulatedPeople ==
    {People_add_transactions(
         initialize_people(Subscript(c, "People").v, {}).people,
         get_transactions(t).results, 1).people :
        c \in LedgerConfigs, t \in LedgerContents}

\* Person objects that are in no roster, with a ledger of their own
Outsiders ==
    {[ppl[i] EXCEPT !.name = "Out"] : ppl \in PopulatedPeople, i \in {1}}

\* people.calculate_expenses_difference(p1, p2, category)
CallCalculateExpensesDifference ==
    /\ call = NoCall
    /\ \E ppl \in PopulatedPeople :
       \E p1, p2 \in {PersonRef(i, ppl[i]) : i \in 1..Len(ppl)}
                     \cup {PersonRef(0, o) : o \in Outsiders},
          c \in {None, "DINING", "GROCERIES"} :
         call' = [op |-> "calculate_expenses_difference", people |-> ppl,
                  p1 |-> p1, p2 |-> p2, category |-> c,
                  result |-> calculate_expenses_difference(ppl, p1, p2, c)]
    /\ CallsOnly

MaxCategories == 2    \* entries of a "Categories" mapping

\* entries of a "Categories" mapping
CategoryPairs ==
    {<<"DINING", JStr("Dining & Drinks")>>,
     <<"GROCERIES", JStr("Groceries")>>,
     <<"GROCERIES", JStr("Dining & Drinks")>>,
     <<"PETS", JStr("Pets")>>,
     <<"PETS", JList(<<JStr("bad"), JStr("config")>>)>>,
     <<"mro", JStr("Pets")>>,
     <<"__x__", JStr("Pets")>>}

\* the mappings: the keys of a JSON object are distinct
CategoryMappings ==
    {m \in SeqUpTo(CategoryPairs, MaxCategories) :
        \A i, j \in 1..Len(m) : i # j => m[i][1] # m[j][1]}

\* the configuration of lambda_function/tests/test.py with other Categories
CategoryConfig(categories) ==
    JDict(<< <<"People", JList(<<George, Tootie>>)>>,
             <<"OwnerEmail", JStr("bebas@gmail.com")>>,
             <<"Categories", categories>> >>)

CategoryConfigs ==
    {CategoryConfig(JDict(m)) : m \in CategoryMappings}
    \cup {CategoryConfig(JList(<<JStr("bad"), JStr("config")>>)),
          CategoryConfig(JStr("Dining & Drinks")),
          CategoryConfig(JNone),
          ConfigWith("OwnerEmail", <<George, Tootie>>),
          JDict(<<>>),
          JList(<<>>),
          JNone}

\* what the configuration file holds: the configuration of
\* lambda_function/tests/test.py, null, a text that is not JSON, or there is
\* no file
StoredCategoryConfigs ==
    {StoredJSON(CategoryConfig(TestCategories)), StoredJSON(JNone), NotJSON,
     NotStored}

\* the arguments of load_config of main.py: None, CONFIG, another location,
\* and values that are no location
ConfigLocations ==
    {JNone, CONFIG,
     JDict(<< <<"Bucket", JStr("test-bucket")>>, <<"Key", JStr("test-key")>> >>),
     JDict(<< <<"Bucket", JStr("test-bucket")>> >>),
     JDict(<<>>),
     JStr("config.json")}

\* load_config(config) of main.py, for what the bucket holds at the location
CallLoadConfig ==
    /\ call = NoCall
    /\ \E c \in ConfigLocations, stored \in StoredConfigs :
         call' = [op |-> "load_config", config |-> c, stored |-> stored,
                  result |-> load_config(c, stored)]
    /\ CallsOnly

\* load_config(config_path) of lambda_function/src/main.py, for what the
\* file at the path holds
CallLoadConfigFile ==
    /\ call = NoCall
    /\ \E path \in {None, "bad_file", "config.json"},
          stored \in StoredCategoryConfigs :
         call' = [op |-> "load_config_file", config_path |-> path,
                  stored |-> stored,
                  result |-> load_config_file(path, stored)]
    /\ CallsOnly

\* build_category_enum(config)
CallBuildCategoryEnum ==
    /\ call = NoCall
    /\ \E c \in CategoryConfigs, stored \in StoredCategoryConfigs :
         call' = [op |-> "build_category_enum", config |-> c,
                  stored |-> stored,
                  result |-> build_category_enum(c, stored)]
    /\ CallsOnly

\* the display strings only one of the two Category classes has
OneSidedCategories ==
    {s \in UNION {{Category(r)[i][2] : i \in 1..Len(Category(r))} : r \in Revs} :
        EnumByValue(Category("main"), s).ok # EnumByValue(Category("v2"), s).ok}

\* CSV texts on which the Category of main.py and the Category of main_v2.py
\* agree: no cell is a display string of one of them only
SameCategoryContents ==
    {c \in ParseContents :
        \A i \in 1..Len(c) : Range(c[i]) \cap OneSidedCategories = {}}

\* construction and population of revision r from a roster and a CSV text:
\* [exc, people]
Attribute(r, entries, file_content) ==
    LET res == parse(r, Category(r), file_content)
        roster == initialize_people(entries, {})
    IN  IF roster.exc # "none" THEN [exc |-> roster.exc, people |-> <<>>]
        ELSE IF res.exc # "none" THEN [exc |-> res.exc, people |-> <<>>]
        ELSE add_transactions(r, Today, roster.people, res.results)

\* src/main.py and main_v2.py on the same roster and the same CSV text
CallAttributeInBothRevisions ==
    /\ call = NoCall
    /\ \E c \in LedgerConfigs, t \in SameCategoryContents :
         call' = [op |-> "attribute", config |-> c, file_content |-> t,
                  main |-> Attribute("main", Subscript(c, "People").v, t),
                  v2 |-> Attribute("v2", Subscript(c, "People").v, t)]
    /\ CallsOnly

\* class Category(Enum) of classes.py
classes_Category ==
    << <<"DINING", "Dining & Drinks">>, <<"GROCERIES", "Groceries">>,
       <<"ENTERTAINMENT", "Entertainment & Rec.">> >>

\* the body of the loop of SpreadsheetParser.parse in classes.py for one row:
\* no "Ignored From" is read and Transaction.__init__ checks nothing;
\* KeyError and ValueError skip the row, a TypeError is not caught
classes_row(row, id) ==
    IF "Date" \notin DOMAIN row THEN ReturnedNone
    ELSE IF row["Date"] = None THEN Raised("TypeError")
    ELSE IF ~strptime(row["Date"]).ok THEN ReturnedNone
    ELSE IF "Name" \notin DOMAIN row THEN ReturnedNone
    ELSE IF "Account Number" \notin DOMAIN row THEN ReturnedNone
    ELSE IF row["Account Number"] = None THEN Raised("TypeError")
    ELSE IF ~int(row["Account Number"]).ok THEN ReturnedNone
    ELSE IF "Amount" \notin DOMAIN row THEN ReturnedNone
    ELSE IF row["Amount"] = None THEN Raised("TypeError")
    ELSE IF ~float(row["Amount"]).ok THEN ReturnedNone
    ELSE IF "Category" \notin DOMAIN row THEN ReturnedNone
    ELSE IF ~EnumByValue(classes_Category, row["Category"]).ok
    THEN ReturnedNone
    ELSE Returned([id |-> id, date |-> strptime(row["Date"]).v,
                   name |-> row["Name"],
                   account_number |-> int(row["Account Number"]).v,
                   amount |-> float(row["Amount"]).v,
                   category |-> EnumByValue(classes_Category,
                                            row["Category"]).v])

RECURSIVE classes_ParseLoop(_, _, _, _)
classes_ParseLoop(fieldnames, lines, i, results) ==
    IF i > Len(lines) THEN [exc |-> "none", results |-> results]
    ELSE LET transaction == classes_row(DictRow(fieldnames, lines[i]), i)
         IN  IF transaction.kind = "raise"
             THEN [exc |-> transaction.exc, results |-> <<>>]
             ELSE IF transaction.kind = "ok"
             THEN classes_ParseLoop(fieldnames, lines, i + 1,
                                    Append(results, transaction.t))
             ELSE classes_ParseLoop(fieldnames, lines, i + 1, results)

\* SpreadsheetParser.parse(file_content) of classes.py
classes_parse(file_content) ==
    LET reader == DictReader(file_content)
    IN  classes_ParseLoop(reader.fieldnames, reader.rows, 1, <<>>)

\* Summary.add_persons_transactions of classes.py: the account must be one
\* of the person's and transaction.date.month must equal self.date.month
RECURSIVE classes_add_persons_transactions(_, _, _, _)
classes_add_persons_transactions(self_date, parsed_transactions, person, i) ==
    IF i > Len(parsed_transactions) THEN [exc |-> "none", person |-> person]
    ELSE LET m == InAccounts(person, parsed_transactions[i].account_number)
         IN  IF m.exc # "none" THEN [exc |-> m.exc, person |-> person]
             ELSE classes_add_persons_transactions(
                    self_date, parsed_transactions,
                    IF /\ m.v
                       /\ parsed_transactions[i].date.month = self_date.month
                    THEN add_transaction(person, parsed_transactions[i])
                    ELSE person,
                    i + 1)

\* the loop of Summary.add_transactions of classes.py from person k on
RECURSIVE classes_AddTransactionsLoop(_, _, _, _)
classes_AddTransactionsLoop(self_date, ppl, parsed_transactions, k) ==
    IF k > Len(ppl) THEN [exc |-> "none", people |-> ppl]
    ELSE LET res == classes_add_persons_transactions(
                        self_date, parsed_transactions, ppl[k], 1)
             done == [ppl EXCEPT ![k] = res.person]
         IN  IF res.exc # "none" THEN [exc |-> res.exc, people |-> done]
             ELSE classes_AddTransactionsLoop(self_date, done,
                                              parsed_transactions, k + 1)

\* Summary.add_transactions of classes.py: [exc, people]
classes_add_transactions(self_date, ppl, parsed_transactions) ==
    classes_AddTransactionsLoop(self_date, ppl, parsed_transactions, 1)

\* SpreadsheetSummary(date, spreadsheet_content, config) of classes.py, for
\* a configuration that is supplied: [exc, date, people]
classes_SpreadsheetSummary(d, spreadsheet_content, supplied) ==
    LET init == SummaryInitFrom("Owner", supplied,
                                load_config_file("config.json", NotStored),
                                {})
        res == classes_parse(spreadsheet_content)
    IN  IF init.exc # "none"
        THEN [exc |-> init.exc, date |-> d, people |-> <<>>]
        ELSE IF res.exc # "none"
        THEN [exc |-> res.exc, date |-> d, people |-> init.people]
        ELSE [exc |-> classes_add_transactions(d, init.people,
                                               res.results).exc,
              date |-> d,
              people |-> classes_add_transactions(d, init.people,
                                                  res.results).people]

\* rows of several months and years
MonthRowSamples ==
    {RowMadcats, RowTikicat, RowTikicat17, RowMadcatsEntertainment,
     With(RowTikicat, 1, "2022-09-10"), With(RowTikicat, 3, "9999")}

MonthContents ==
    {<<NoIgnoredHeader>> \o [i \in 1..Len(rows) |-> Take(rows[i], 5)] :
        rows \in SeqUpTo(MonthRowSamples, MaxEngineRows)}

\* SpreadsheetSummary(date, spreadsheet_content, config) of classes.py
CallSpreadsheetSummaryOfClasses ==
    /\ call = NoCall
    /\ \E d \in {Today, [year |-> 2023, month |-> 8, day |-> 1]},
          c \in LedgerConfigs, t \in MonthContents :
         call' = [op |-> "classes.SpreadsheetSummary", date |-> d,
                  config |-> c, spreadsheet_content |-> t,
                  result |-> classes_SpreadsheetSummary(d, t, c)]
    /\ CallsOnly

NextCalls ==
    \/ CallLoadConfig
    \/ CallLoadConfigFile
    \/ CallParseDateFromFilename
    \/ CallLambdaHandler
    \/ CallCalculateExpensesDifference
    \/ CallBuildCategoryEnum
    \/ CallAttributeInBothRevisions
    \/ CallSpreadsheetSummaryOfClasses

\* calls of single functions, in any order, on every argument
SpecCalls == InitCalls /\ [][NextCalls]_vars

----------------------------------------------------------------------------
(* Vocabulary of the properties *)

Keys(table) == {table[i][1] : i \in 1..Len(table)}
EnumValues(enum) == {enum[i][2] : i \in 1..Len(enum)}

HasHeader(c) == Len(c) > 0
Fieldnames(c) == DictReader(c).fieldnames
DataLines(c) == DictReader(c).rows
DataRows(c) == IF HasHeader(c) THEN 1..Len(DataLines(c)) ELSE {}

\* the text of the field of a data line, None when the column or the cell
\* is not there; of several columns of one name the last is the field
CellOf(fieldnames, cells, column) ==
    LET idx == {j \in 1..Len(fieldnames) : fieldnames[j] = column}
    IN  IF idx = {} THEN None
        ELSE LET j == CHOOSE j \in idx : \A k \in idx : k <= j
             IN  IF j <= Len(cells) THEN cells[j] ELSE None

FieldOf(c, i, column) == CellOf(Fieldnames(c), DataLines(c)[i], column)

\* Date, Name, Account Number, Amount and Category present and valid
ValidButIgnore(r, c, i) ==
    /\ FieldOf(c, i, "Date") \in Keys(DATE_FORMAT)
    /\ FieldOf(c, i, "Name") # None
    /\ FieldOf(c, i, "Account Number") \in Keys(IntLiterals)
    /\ FieldOf(c, i, "Amount") \in Keys(FloatLiterals)
    /\ FieldOf(c, i, "Category") \in EnumValues(Category(r))

\* all six fields present and valid
ValidRow(r, c, i) ==
    /\ ValidButIgnore(r, c, i)
    /\ FieldOf(c, i, "Ignored From") \in EnumValues(IgnoreEnum(r))

\* the positions of the returned list holding the Transaction of data row i
ParsedOf(i) == {k \in 1..Len(parsed) : parsed[k].id = i}

\* the Transaction at position k carries the values of its row
CarriesRow(k) ==
    LET i == parsed[k].id
    IN  /\ parsed[k].date = strptime(FieldOf(content, i, "Date")).v
        /\ parsed[k].name = FieldOf(content, i, "Name")
        /\ parsed[k].account_number
               = int(FieldOf(content, i, "Account Number")).v
        /\ parsed[k].amount = float(FieldOf(content, i, "Amount")).v
        /\ \E m \in 1..Len(Category(rev)) :
               /\ Category(rev)[m][1] = parsed[k].category
               /\ Category(rev)[m][2] = FieldOf(content, i, "Category")
        /\ \E m \in 1..Len(IgnoreEnum(rev)) :
               /\ IgnoreEnum(rev)[m][1] = parsed[k].ignore
               /\ IgnoreEnum(rev)[m][2] = FieldOf(content, i, "Ignored From")

\* the positions of a ledger holding the transaction object with identity id
LedgerOf(person, id) ==
    {k \in 1..Len(person.transactions) : person.transactions[k].id = id}

AccountSet(person) ==
    LET a == person.account_numbers
    IN  IF a.t # "list" THEN {}
        ELSE {a.items[i].n : i \in {j \in 1..Len(a.items) : a.items[j].t = "int"}}

\* sum of the amounts at a set of positions of a list of transactions,
\* added in the order of the list
RECURSIVE SumAt(_, _)
SumAt(ts, S) ==
    IF S = {} THEN FloatZero
    ELSE LET k == CHOOSE k \in S : \A j \in S : j <= k
         IN  FloatAdd(SumAt(ts, S \ {k}), ts[k].amount)

\* the decimal, in tenths of a cent, that the amounts at a set of positions
\* add up to
RECURSIVE DecimalAt(_, _)
DecimalAt(ts, S) ==
    IF S = {} THEN 0
    ELSE LET k == CHOOSE k \in S : TRUE
         IN  ts[k].amount.a + DecimalAt(ts, S \ {k})

\* the positions of a ledger that a category selects (None: all of them)
InCategory(person, category) ==
    {k \in 1..Len(person.transactions) :
        category = None \/ person.transactions[k].category = category}

\* the expenses of a person in a category (None: all categories)
Expenses(person, category) ==
    SumAt(person.transactions, InCategory(person, category))

Amounts(person) ==
    [k \in 1..Len(person.transactions) |-> person.transactions[k].amount]

----------------------------------------------------------------------------
(* Properties *)

\* C1: for every CSV text with a header row, the parser returns exactly one
\* Transaction for each data row whose six fields are present and valid,
\* carrying the row's values, none for any other row, in row order; an
\* invalid row never stops the rows after it from being parsed.
C1_ParseKeepsExactlyValidRows ==
    (pc = "parse_done" /\ HasHeader(content)) =>
        /\ exc = "none"
        /\ \A i \in DataRows(content) :
               Cardinality(ParsedOf(i))
                   = IF ValidRow(rev, content, i) THEN 1 ELSE 0
        /\ \A k \in 1..Len(parsed) :
               parsed[k].id \in DataRows(content) /\ CarriesRow(k)
        /\ \A k, l \in 1..Len(parsed) : k < l => parsed[k].id < parsed[l].id

\* C2: the parser never raises: for every input text it returns a sequence,
\* and the empty sequence when no data row is valid.
C2_ParseNeverRaises ==
    pc = "parse_done" =>
        /\ exc = "none"
        /\ (\A i \in DataRows(content) : ~ValidRow(rev, content, i))
               => parsed = <<>>

\* C3: after population no ledger holds a transaction whose ignore reason is
\* budget or everything, even when its account number is the person's.
C3_NoIgnoredTransactionAttributed ==
    \A p \in 1..Len(people) : \A k \in 1..Len(people[p].transactions) :
        people[p].transactions[k].ignore \notin {"BUDGET", "EVERYTHING"}

\* C3 witness: a populated engine whose parsed list holds a budget or
\* everything transaction on an account of a person of the roster.
C3_Witness ==
    /\ pc = "populated"
    /\ \E k \in 1..Len(parsed), p \in 1..Len(people) :
           /\ parsed[k].ignore \in {"BUDGET", "EVERYTHING"}
           /\ parsed[k].account_number \in AccountSet(people[p])
           /\ LedgerOf(people[p], parsed[k].id) = {}

\* C4 as stated: an otherwise valid row with Ignored From budget or
\* everything is not skipped by the parser; a call that returns holds a
\* Transaction for it carrying that reason.
C4_IgnoredRowsAreParsed ==
    (pc = "parse_done" /\ exc = "none") =>
        \A i \in DataRows(content) :
            (/\ ValidButIgnore(rev, content, i)
             /\ FieldOf(content, i, "Ignored From") \in {"budget", "everything"})
            => \E k \in ParsedOf(i) :
                   parsed[k].ignore
                       = (IF FieldOf(content, i, "Ignored From") = "budget"
                          THEN "BUDGET" ELSE "EVERYTHING")

\* C4 amended: in main_v2.py to_transaction returns a Transaction carrying
\* the reason for an otherwise valid row with Ignored From budget or
\* everything, every get_transactions call that returns holds it, and such a
\* row is skipped only when Ignored From matches no IgnoredFrom value; in
\* main.py the only accepted value is the empty string, so from_row returns
\* None for every other value and parse skips the row.
C4_IgnoredRowsByRevision ==
    pc = "parse_done" =>
        \A i \in DataRows(content) :
            ValidButIgnore(rev, content, i) =>
                LET cell == FieldOf(content, i, "Ignored From")
                    made == from_row(rev, Category(rev),
                                     DictRow(Fieldnames(content),
                                             DataLines(content)[i]), i)
                IN  IF rev = "v2"
                    THEN /\ cell \in {"budget", "everything"} =>
                              /\ made.kind = "ok"
                              /\ made.t.ignore = (IF cell = "budget"
                                                  THEN "BUDGET"
                                                  ELSE "EVERYTHING")
                              /\ exc = "none" =>
                                    \E k \in ParsedOf(i) :
                                        parsed[k].ignore = made.t.ignore
                         /\ (made.kind = "none")
                                <=> cell \notin {"", "budget", "everything"}
                    ELSE /\ (made.kind = "none") <=> cell # ""
                         /\ (exc = "none" /\ cell # "") => ParsedOf(i) = {}

\* C4 witness: a returned parse of a text with an otherwise valid budget or
\* everything row, in main_v2.py.
C4_Witness ==
    /\ pc = "parse_done" /\ exc = "none" /\ rev = "v2"
    /\ \E i \in DataRows(content) :
           /\ ValidButIgnore(rev, content, i)
           /\ FieldOf(content, i, "Ignored From") \in {"budget", "everything"}
           /\ ParsedOf(i) # {}

\* C5: after add_transactions on a freshly constructed engine the ledger of
\* every person is exactly the subsequence, in parse order, of the parsed
\* transactions on the person's accounts that are not ignored.
C5_LedgerIsMatchingSubsequence ==
    pc = "populated" =>
        \A p \in 1..Len(people) :
            people[p].transactions
                = SelectSeq(parsed,
                            LAMBDA t : /\ t.account_number
                                            \in AccountSet(people[p])
                                       /\ t.ignore = NotIgnored(rev))

\* C5 witness: a ledger of two transactions in parse order, and a parsed
\* transaction that is not in the ledger of a person.
C5_Witness ==
    /\ pc = "populated"
    /\ \E p, q \in 1..Len(people) :
           /\ Len(people[p].transactions) = 2
           /\ people[p].transactions[1].id < people[p].transactions[2].id
           /\ \E k \in 1..Len(parsed) : LedgerOf(people[q], parsed[k].id) = {}

\* C6: in one population pass a transaction is appended exactly once to the
\* ledger of every person whose account list holds its account number (not
\* only the first), never twice to one ledger, and it counts in the expenses
\* of each of them.
C6_AttributedToEveryMatchingPerson ==
    /\ pc = "populated" =>
           \A k \in 1..Len(parsed), p \in 1..Len(people) :
               /\ Cardinality(LedgerOf(people[p], parsed[k].id)) <= 1
               /\ (/\ parsed[k].account_number \in AccountSet(people[p])
                   /\ parsed[k].ignore = NotIgnored(rev))
                  => Cardinality(LedgerOf(people[p], parsed[k].id)) = 1
    /\ (pc = "populated" /\ ret.op = "calculate_expenses"
            /\ ret.category = None) =>
           ret.value
               = SumAt(parsed,
                       {k \in 1..Len(parsed) :
                           /\ parsed[k].account_number
                                  \in AccountSet(people[ret.p1])
                           /\ parsed[k].ignore = NotIgnored(rev)})

\* C6 witness: two people share an account and one transaction on it is in
\* both ledgers.
C6_Witness ==
    /\ pc = "populated"
    /\ \E k \in 1..Len(parsed), p, q \in 1..Len(people) :
           /\ p < q
           /\ LedgerOf(people[p], parsed[k].id) # {}
           /\ LedgerOf(people[q], parsed[k].id) # {}

\* C7: the month filter is off: a parsed, not ignored transaction on an
\* account of a person is in that person's ledger whatever its date, also
\* when its month is not the month of the report date.
C7_NoMonthFilter ==
    pc = "populated" =>
        \A k \in 1..Len(parsed), p \in 1..Len(people) :
            (/\ parsed[k].account_number \in AccountSet(people[p])
             /\ parsed[k].ignore = NotIgnored(rev))
            => LedgerOf(people[p], parsed[k].id) # {}

\* C7 witness: a ledger of main.py's engine holds a transaction of a month
\* other than the month of the report date.
C7_Witness ==
    /\ pc = "populated" /\ rev = "main"
    /\ \E p \in 1..Len(people) : \E k \in 1..Len(people[p].transactions) :
           people[p].transactions[k].date.month # date.month

\* C8: calculate_expenses returns the sum of the amounts of the ledger when
\* no category is given, the sum over the transactions of the category when
\* one is, and 0 for an empty ledger; 17.00 and 12.66 in DINING give 29.66
\* for DINING and for the total.  The sum is the float sum, added from 0 in
\* ledger order, and the decimal it stands for is the sum of the decimals.
C8_CalculateExpenses ==
    ret.op = "calculate_expenses" =>
        LET person == people[ret.p1]
        IN  /\ ret.value = Expenses(person, ret.category)
            /\ ret.value.a = DecimalAt(person.transactions,
                                       InCategory(person, ret.category))
            /\ Len(person.transactions) = 0 => ret.value = FloatZero
            /\ (/\ Amounts(person) \in {<<FloatOf(17000), FloatOf(12660)>>,
                                        <<FloatOf(12660), FloatOf(17000)>>}
                /\ \A k \in 1..2 : person.transactions[k].category = "DINING"
                /\ ret.category \in {"DINING", None})
               => ret.value = FloatOf(29660)

\* C8 witness: the DINING expenses of a ledger of two DINING transactions of
\* 12.66 and 17.00, which has been computed as 29.66.
C8_Witness ==
    /\ ret.op = "calculate_expenses" /\ ret.category = "DINING"
    /\ Amounts(people[ret.p1]) = <<FloatOf(12660), FloatOf(17000)>>
    /\ \A k \in 1..2 : people[ret.p1].transactions[k].category = "DINING"
    /\ ret.value = FloatOf(29660)

\* C9: calculate_2_person_difference(person1, person2, category) is the
\* expenses of person1 minus the expenses of person2, sign kept, for every
\* pair and category; totals of 12.66 and 17.00 give -4.34.  The
\* difference is the float difference of the two float sums.
C9_Difference ==
    ret.op = "calculate_2_person_difference" =>
        /\ ret.value = FloatSub(Expenses(people[ret.p1], ret.category),
                                Expenses(people[ret.p2], ret.category))
        /\ (/\ ret.category = None
            /\ Amounts(people[ret.p1]) = <<FloatOf(12660)>>
            /\ Amounts(people[ret.p2]) = <<FloatOf(17000)>>)
           => ret.value = FloatOf(-4340)

\* C9 witness: the overall difference of a person with 12.66 and a person
\* with 17.00 has been computed.
C9_Witness ==
    /\ ret.op = "calculate_2_person_difference" /\ ret.category = None
    /\ Amounts(people[ret.p1]) = <<FloatOf(12660)>>
    /\ Amounts(people[ret.p2]) = <<FloatOf(17000)>>
    /\ FloatIsNegative(ret.value)

\* C10: constructing the engine with a supplied configuration document that
\* lacks a key, is not a mapping or has a bad person entry raises KeyError or
\* TypeError: no engine, no default configuration in place of the supplied
\* one, nothing parsed or attributed.
C10_BadConfigFailsFast ==
    (config \in BadConfigs /\ pc # "new") =>
        /\ pc = "failed"
        /\ exc \in {"KeyError", "TypeError"}
        /\ cfgsrc = "supplied"
        /\ people = <<>>
        /\ parsed = <<>>

----------------------------------------------------------------------------
(* Vocabulary of the report properties *)

\* the configuration document the constructor built the roster from
UsedConfig == IF cfgsrc = "supplied" THEN config ELSE StoredConfig

\* the entries of its "People" value, in document order
RosterEntries == Iterate(Subscript(UsedConfig, "People").v).items

\* the account numbers of a configuration entry, in document order
EntryAccounts(entry) == Subscript(entry, "Accounts").v

Rendered == ret.op = "generate_summary_email"

\* the texts of the cells of a table row
Texts(row) == [k \in 1..Len(row) |-> row[k].text]

\* the money texts of a row computed from one value per category and a total
MoneyTexts(perCategory(_), total) ==
    [k \in 1..Len(Category("main")) |->
        format_money_helper(perCategory(Category("main")[k][1]))]
        \o <<format_money_helper(total)>>

\* C11: the roster is the configuration's People list in its order: person i
\* is built from entry i (name, email, account numbers), with an empty ledger
\* right after construction; populating the ledgers neither reorders, adds
\* nor removes people; the recipients of the summary email are the people's
\* emails in roster order and its sender is the configured owner.
C11_RosterKeepsConfigOrder ==
    pc \in {"constructed", "populated"} =>
        /\ Len(people) = Len(RosterEntries)
        /\ \A i \in 1..Len(people) :
               /\ people[i].name = Subscript(RosterEntries[i], "Name").v.s
               /\ people[i].email = Subscript(RosterEntries[i], "Email").v.s
               /\ people[i].account_numbers = EntryAccounts(RosterEntries[i])
               /\ pc = "constructed" => people[i].transactions = <<>>
        /\ Rendered =>
               /\ ret.value.to_addresses
                      = [i \in 1..Len(RosterEntries) |->
                            Subscript(RosterEntries[i], "Email").v.s]
               /\ ret.value.source = Subscript(UsedConfig, "Owner").v

\* an email rendered for a populated roster of three people
C11_Witness ==
    /\ pc = "populated"
    /\ Rendered
    /\ Len(people) = 3
    /\ \E i \in 1..Len(people) : Len(people[i].transactions) > 0
    /\ ret.value.to_addresses[3] = "alex@example.com"

\* C12: the body of the summary email has one row per person, in roster
\* order, and after them the difference row (first person minus second
\* person, per category and overall) exactly when the roster has two people;
\* with any other roster size there is no difference row.
C12_DifferenceRowIffTwoPeople ==
    Rendered =>
        LET body == ret.value.html.tbody
        IN  /\ Len(body) = Len(people) + (IF Len(people) = 2 THEN 1 ELSE 0)
            /\ \A i \in 1..Len(people) : body[i][1].text = people[i].name
            /\ Len(people) = 2 =>
                   Texts(body[3])
                       = <<"Difference (" \o people[1].name \o " - "
                               \o people[2].name \o ")">>
                         \o MoneyTexts(
                                LAMBDA c : FloatSub(Expenses(people[1], c),
                                                    Expenses(people[2], c)),
                                FloatSub(Expenses(people[1], None),
                                         Expenses(people[2], None)))

\* an email for two people whose expenses differ
C12_Witness ==
    /\ Rendered
    /\ Len(people) = 2
    /\ Expenses(people[1], None) # Expenses(people[2], None)
    /\ Len(people[2].transactions) > 0

\* C13: the header row of the table is a blank cell, one cell per Category
\* in enumeration order and a Total cell; the row of a person is the name,
\* the person's expenses per category in the same order and the overall
\* expenses; every row, the difference row included, has |Category| + 2
\* cells.
C13_TableShape ==
    Rendered =>
        LET html == ret.value.html
        IN  /\ Texts(html.thead)
                   = <<"">> \o [k \in 1..Len(Category("main")) |->
                                   Category("main")[k][2]]
                            \o <<"Total">>
            /\ Len(html.thead) = Len(Category("main")) + 2
            /\ \A i \in 1..Len(html.tbody) :
                   Len(html.tbody[i]) = Len(Category("main")) + 2
            /\ \A i \in 1..Len(people) :
                   Texts(html.tbody[i])
                       = <<people[i].name>>
                         \o MoneyTexts(LAMBDA c : Expenses(people[i], c),
                                       Expenses(people[i], None))

\* an email whose table has a person row with expenses in two categories
C13_Witness ==
    /\ Rendered
    /\ \E i \in 1..Len(people) :
           /\ Expenses(people[i], "DINING").a > 0
           /\ Expenses(people[i], "GROCERIES").a > 0

\* the queries of main.py that C14 names
NamedQueries ==
    {"calculate_expenses", "calculate_2_person_difference",
     "generate_summary_email"}

\* C14: on a populated engine (and on one not yet populated) a call of
\* calculate_expenses, calculate_2_person_difference or
\* generate_summary_email leaves the engine as it was: the same Persons in
\* the same order, each with its name, its email, its account numbers, the
\* list it is bound to and the items of that list, and the same owner and
\* date; and the same call made again right after it returns the value the
\* first call returned, and leaves the engine as it was, too.
C14_QueriesAreReadOnly ==
    [][/\ (call' = call /\ ret'.op \in NamedQueries) =>
             /\ people' = people
             /\ owner' = owner
             /\ date' = date
             /\ pc' = pc
       /\ (call' # call /\ call'.op = "again" /\ ret.op \in NamedQueries) =>
             /\ call'.value = ret.value
             /\ people' = people
             /\ owner' = owner
             /\ date' = date
             /\ pc' = pc]_vars

\* a difference query answered on ledgers that are not empty, and answered
\* again
C14_Witness ==
    /\ pc = "populated"
    /\ ret.op = "calculate_2_person_difference"
    /\ ret.p1 # ret.p2
    /\ Len(people[ret.p1].transactions) > 0
    /\ Len(people[ret.p2].transactions) > 0
    /\ ret.value # FloatZero
    /\ call.op = "again"
    /\ call.value = ret.value

\* the dates of all transactions in the ledgers of the roster
AttributedDates ==
    UNION {{people[i].transactions[k].date :
                k \in 1..Len(people[i].transactions)} : i \in 1..Len(people)}

DateRangeAsked == ret.op \in {"get_oldest_transaction", "get_newest_transaction"}

\* C17: after population, whenever some Person has an attributed
\* transaction, People.get_oldest_transaction returns the minimum and
\* People.get_newest_transaction the maximum of the dates of all attributed
\* transactions, also when other Persons of the roster have none.
C17_DateRangeOfAttributed ==
    (pc = "populated" /\ DateRangeAsked /\ AttributedDates # {}) =>
        /\ ret.value.exc = "none"
        /\ ret.value.v \in AttributedDates
        /\ ret.op = "get_oldest_transaction" =>
               \A d \in AttributedDates : ~DateLess(d, ret.value.v)
        /\ ret.op = "get_newest_transaction" =>
               \A d \in AttributedDates : ~DateLess(ret.value.v, d)

----------------------------------------------------------------------------
(* Vocabulary of the run properties *)

Terminal(run) == run.pc \in {"done", "aborted"}

\* the key of the event holds no token of the form dddd-dd-dd
KeyWithoutDate(run) ==
    \A i \in 1..Len(run.key) :
        \A k \in 1..Len(DateTokens) : DateTokens[k][1] # run.key[i]

\* the date denoted by the first dddd-dd-dd token of the key of the event
KeyDate(run) ==
    LET hits == {i \in 1..Len(run.key) :
                    \E k \in 1..Len(DateTokens) : DateTokens[k][1] = run.key[i]}
    IN  Lookup(DateTokens,
               run.key[CHOOSE i \in hits : \A j \in hits : i <= j]).v

\* the stores and the mail service serve the run: the object is there, the
\* configuration is the document of the revision that lists George and
\* Tootie, SES accepts the message
Served(run) ==
    /\ run.object.exists
    /\ run.cfg = StoredJSON(RunConfig(run.rev, <<George, Tootie>>))
    /\ run.ses = "ok"

\* the text of the cell of a table row in the column of a category, and in
\* the Total column
CellAt(Cat, row, category) ==
    row[1 + CHOOSE k \in 1..Len(Cat) : Cat[k][1] = category].text
TotalCell(row) == row[Len(row)].text

\* the run of an event from where it is to its end, no other run taking a
\* step: mod is the module of the process and live the identities of the
\* lists the process holds
RECURSIVE Alone(_, _, _)
Alone(run, mod, live) ==
    CASE run.pc = "start" /\ run.rev = "lambda" ->
             Alone(Import(run, mod).run, Import(run, mod).module, live)
      [] run.pc \in {"start", "imported"} -> Alone(ReadStep(run), mod, live)
      [] run.pc = "read" /\ run.rev = "lambda" ->
             Alone(DateStep(run), mod, live)
      [] run.pc \in {"read", "dated"} ->
             Alone(BuildStep(Globals(run, mod), live), mod, live)
      [] run.pc = "built" -> Alone(RenderStep(Globals(run, mod)), mod, live)
      [] run.pc = "rendered" -> Alone(SendStep(run), mod, live)
      [] OTHER -> run

\* the run as it was triggered
Triggered(run) ==
    [NewRun(run.rev, run.bucket, run.key, run.object, run.cfg, run.ses)
        EXCEPT !.others = run.others]

\* the run of the event in a process of its own: the module is imported for
\* it and no list is there before its own
InOwnProcess(run) == Alone(Triggered(run), Unloaded, {})

\* what a run has come to: its position, its error, the Category it read,
\* the text it read, its engine (owner, date, and name, email, account numbers and ledger of
\* every Person), its email and what the mail service accepted
Outcome(run) ==
    [pc |-> run.pc, exc |-> run.exc, Category |-> run.Category,
     owner |-> run.owner, date |-> run.date,
     people |-> [i \in 1..Len(run.people) |->
                    [name |-> run.people[i].name,
                     email |-> run.people[i].email,
                     account_numbers |-> run.people[i].account_numbers,
                     transactions |-> run.people[i].transactions]],
     file_content |-> run.file_content, email |-> run.email,
     accepted |-> run.accepted]

\* C15: in every run the mail service accepts at most one email: exactly
\* one, the rendered one, when the run completes, and none when the run
\* aborts (object read, construction of the engine, transport); the error
\* that aborts the run is the one raised to the caller of the handler, and
\* a run that has not aborted has raised none.
C15_AtMostOneEmail ==
    \A r \in DOMAIN runs :
        /\ Len(runs[r].accepted) <= 1
        /\ runs[r].pc = "done" =>
               /\ runs[r].exc = "none"
               /\ runs[r].accepted = <<runs[r].email>>
               /\ runs[r].email # NoEmail
        /\ runs[r].pc = "aborted" =>
               /\ runs[r].exc # "none"
               /\ runs[r].accepted = <<>>
        /\ runs[r].pc # "aborted" => runs[r].exc = "none"
        /\ (runs[r].pc # "done" /\ runs[r].ses = "ClientError") =>
               runs[r].accepted = <<>>
        /\ (Terminal(runs[r]) /\ runs[r].ses = "ClientError") =>
               runs[r].pc = "aborted"

\* a run aborted by the transport error of SES after its email was rendered
C15_Witness ==
    \E r \in DOMAIN runs :
        /\ runs[r].pc = "aborted"
        /\ runs[r].exc = "ClientError"
        /\ runs[r].email # NoEmail
        /\ runs[r].accepted = <<>>

\* C16: when the object is not a table of transactions (and the stores and
\* the mail service serve the run and its key holds a date), the run does
\* not abort: no transaction is attributed, the report is rendered with
\* every expense 0.00 and the one email is sent.
C16_UnparseableStillReports ==
    \A r \in DOMAIN runs :
        (/\ Served(runs[r])
         /\ runs[r].object.body \in UnparseableContents
         /\ ~KeyWithoutDate(runs[r])
         /\ KeyDate(runs[r]).exc = "none") =>
            /\ runs[r].pc # "aborted"
            /\ \A i \in 1..Len(runs[r].people) :
                   runs[r].people[i].transactions = <<>>
            /\ runs[r].email # NoEmail =>
                   \A i \in 1..Len(runs[r].email.html.tbody) :
                       \A k \in 2..Len(runs[r].email.html.tbody[i]) :
                           runs[r].email.html.tbody[i][k].text = "0.00"
            /\ runs[r].pc = "done" => runs[r].accepted = <<runs[r].email>>

\* C18 (as stated): when the key of the event holds no date, the report
\* date is the current date and the run goes on to build and send the
\* report.
C18_NoDateKeyUsesToday ==
    \A r \in DOMAIN runs :
        (runs[r].rev \in {"main", "lambda"} /\ KeyWithoutDate(runs[r])) =>
            /\ runs[r].exc # "AttributeError"
            /\ runs[r].pc \in {"built", "rendered", "done"} =>
                   runs[r].date = Today

\* C18 (amended): in main.py the report date is the current date whatever
\* the key; in lambda_function/src/main.py the report date is the date of
\* the first dddd-dd-dd match in the key, and a key without a match makes
\* parse_date_from_filename raise AttributeError: once the module is
\* imported (build_category_enum() has returned) and the object is read,
\* the run aborts, builds no report and sends no email.
C18_ReportDateByRevision ==
    \A r \in DOMAIN runs :
        /\ (runs[r].rev = "main"
              /\ runs[r].pc \in {"built", "rendered", "done"}) =>
               runs[r].date = Today
        /\ (runs[r].rev = "lambda"
              /\ runs[r].pc \in {"dated", "built", "rendered", "done"}) =>
               /\ ~KeyWithoutDate(runs[r])
               /\ runs[r].date = KeyDate(runs[r]).v
        /\ (runs[r].rev = "lambda" /\ KeyWithoutDate(runs[r])
              /\ runs[r].pc = "aborted" /\ runs[r].object.exists
              /\ build_category_enum(JNone, runs[r].cfg).exc = "none") =>
               /\ runs[r].exc = "AttributeError"
               /\ runs[r].people = <<>>
               /\ runs[r].email = NoEmail
               /\ runs[r].accepted = <<>>

\* a run of lambda_function/src/main.py aborted by the AttributeError of a
\* key without a date, after the object was read
C18_Witness ==
    \E r \in DOMAIN runs :
        /\ runs[r].rev = "lambda"
        /\ KeyWithoutDate(runs[r])
        /\ runs[r].pc = "aborted"
        /\ runs[r].exc = "AttributeError"
        /\ runs[r].file_content = ScenarioContent

\* C19: for the spreadsheet of the scenario (MADCATS DANCE on 2023-08-31,
\* account 1313, 17, Entertainment; TIKICAT BAR on 2023-09-04, account 1234,
\* 12.66, Dining; neither ignored) and the roster George (1234), Tootie
\* (1313), the report shows 12.66 for George's Dining, 0.00 for Tootie's
\* total, 12.66 for the Dining difference George - Tootie and 12.66 for the
\* overall difference.
C19_Scenario ==
    \A r \in DOMAIN runs :
        (/\ runs[r].object = Object(ScenarioContent)
         /\ runs[r].cfg
                = StoredJSON(RunConfig(runs[r].rev, <<George, Tootie>>))
         /\ runs[r].email # NoEmail) =>
            LET body == runs[r].email.html.tbody
            IN  /\ Len(body) = 3
                /\ body[1][1].text = "George"
                /\ body[2][1].text = "Tootie"
                /\ body[3][1].text = "Difference (George - Tootie)"
                /\ CellAt(runs[r].Category, body[1], "DINING") = "12.66"
                /\ TotalCell(body[2]) = "0.00"
                /\ CellAt(runs[r].Category, body[3], "DINING") = "12.66"
                /\ TotalCell(body[3]) = "12.66"

\* the report of the scenario delivered by a completed run
C19_Witness ==
    \E r \in DOMAIN runs :
        /\ runs[r].object = Object(ScenarioContent)
        /\ runs[r].cfg
               = StoredJSON(RunConfig(runs[r].rev, <<George, Tootie>>))
        /\ runs[r].pc = "done"
        /\ runs[r].accepted = <<runs[r].email>>
        /\ TotalCell(runs[r].email.html.tbody[1]) = "12.66"

\* the steps a run has taken are steps of its execution alone: the run in
\* its own process reaches, after some of its steps, what the run has come
\* to here
RECURSIVE OnOwnPath(_, _, _)
OnOwnPath(run, own, mod) ==
    \/ Outcome(own) = Outcome(run)
    \/ /\ own.pc \notin {"done", "aborted"}
       /\ CASE own.pc = "start" /\ own.rev = "lambda" ->
                   OnOwnPath(run, Import(own, mod).run,
                             Import(own, mod).module)
            [] own.pc \in {"start", "imported"} ->
                   OnOwnPath(run, ReadStep(own), mod)
            [] own.pc = "read" /\ own.rev = "lambda" ->
                   OnOwnPath(run, DateStep(own), mod)
            [] own.pc \in {"read", "dated"} ->
                   OnOwnPath(run, BuildStep(Globals(own, mod), {}), mod)
            [] own.pc = "built" ->
                   OnOwnPath(run, RenderStep(Globals(own, mod)), mod)
            [] OTHER -> OnOwnPath(run, SendStep(own), mod)

\* C20: runs triggered by different events share no mutable state.  Every
\* run builds Persons of its own, each bound to a list no Person of another
\* run is bound to; and at every point of every interleaving of the steps
\* of the runs of one process, what each run has come to is a state of its
\* execution in a process of its own, and the run, continued from there with
\* the module and the lists of the shared process, ends with the ledgers,
\* the email and the accepted message of that execution.
C20_RunsAreIndependent ==
    /\ \A q, r \in DOMAIN runs :
          q # r => Ledgers(runs[q].people) \cap Ledgers(runs[r].people) = {}
    /\ \A r \in DOMAIN runs :
          /\ OnOwnPath(runs[r], Triggered(runs[r]), Unloaded)
          /\ Outcome(Alone(runs[r], module, LiveLists(runs)))
                 = Outcome(InOwnProcess(runs[r]))

\* two runs on different spreadsheets, both populated before either has
\* rendered, with different ledgers
C20_Witness ==
    /\ Cardinality(DOMAIN runs) >= 2
    /\ runs[1].pc = "built"
    /\ runs[2].pc = "built"
    /\ runs[1].object # runs[2].object
    /\ \E i \in 1..Len(runs[1].people) :
          /\ Len(runs[1].people[i].transactions) > 0
          /\ runs[1].people[i].transactions # runs[2].people[i].transactions

----------------------------------------------------------------------------
(* Vocabulary of the calls *)

\* the tokens of the shape dddd-dd-dd
DateShaped == {"2023-09-23", "2022-01-31", "2023-13-45"}

\* the calendar date a token of that shape denotes; month 13 denotes none
Denotes(t) ==
    CASE t = "2023-09-23" -> [year |-> 2023, month |-> 9, day |-> 23]
      [] t = "2022-01-31" -> [year |-> 2022, month |-> 1, day |-> 31]
      [] OTHER -> NoDate

Matches(f) == {i \in 1..Len(f) : f[i] \in DateShaped}

FirstMatch(f) == f[CHOOSE i \in Matches(f) : \A j \in Matches(f) : i <= j]

----------------------------------------------------------------------------
(* C21 *)

\* C21, as stated: parse_date_from_filename returns the calendar date
\* denoted by the first substring of the filename that matches dddd-dd-dd,
\* and raises AttributeError for every filename without such a substring.
C21_MatchReturnsDate ==
    call.op = "parse_date_from_filename" =>
        IF Matches(call.filename) = {}
        THEN call.result.exc = "AttributeError"
        ELSE /\ call.result.exc = "none"
             /\ call.result.v = Denotes(FirstMatch(call.filename))

\* C21, amended: the first match decides alone.  When it denotes a calendar
\* date, that date is returned; when it denotes none (month 13), ValueError
\* is raised, also where a later match denotes a date; when nothing matches,
\* AttributeError is raised.
C21_FirstMatchDecides ==
    call.op = "parse_date_from_filename" =>
        IF Matches(call.filename) = {}
        THEN call.result.exc = "AttributeError"
        ELSE IF Denotes(FirstMatch(call.filename)) # NoDate
        THEN /\ call.result.exc = "none"
             /\ call.result.v = Denotes(FirstMatch(call.filename))
        ELSE call.result.exc = "ValueError"

\* a filename with two matches that denote different dates, after a piece
\* that matches nothing: the date of the first match came back
C21_Witness ==
    /\ call.op = "parse_date_from_filename"
    /\ Cardinality(Matches(call.filename)) >= 2
    /\ 1 \notin Matches(call.filename)
    /\ \E i \in Matches(call.filename) :
          /\ Denotes(call.filename[i]) # NoDate
          /\ Denotes(call.filename[i]) # Denotes(FirstMatch(call.filename))
    /\ call.result.exc = "none"
    /\ call.result.v = Denotes(FirstMatch(call.filename))

----------------------------------------------------------------------------
(* C24 *)

\* C24: the bucket and the key of the trigger payload survive the s3:// path
\* round trip: read_s3_file is called with exactly the bucket and exactly
\* the key of the event, whatever text the key holds.
C24_PathRoundTrip ==
    call.op = "lambda_handler" =>
        /\ call.result.exc = "none"
        /\ call.result.bucket = call.bucket
        /\ call.result.key = call.key

----------------------------------------------------------------------------
(* C22 *)

\* how often transaction t occurs in a ledger
Occurrences(person, t) ==
    Cardinality({k \in 1..Len(person.transactions) : person.transactions[k] = t})

\* the transactions of a list on the accounts of a person, in list order
OnAccounts(ts, person) ==
    SelectSeq(ts, LAMBDA t : t.account_number \in AccountSet(person))

\* the Persons of a list are bound to lists of their own, no two to one
OwnLists(ppl) ==
    \A i, j \in 1..Len(ppl) : i # j => ppl[i].ledger # ppl[j].ledger

\* C22: Person.add_transaction only appends: after add_transaction(t) the
\* ledger is the previous ledger followed by t, with no dedup and no
\* validation, so the same transaction added twice is in the ledger twice.
\* The calls built on it only append, too: add_persons_transactions leaves
\* the ledger of the person followed by the parsed transactions on the
\* person's accounts, add_transactions leaves every ledger followed by
\* something, which for Persons with lists of their own is the parsed
\* transactions attributed to the person; and add_transactions run a second
\* time with the same parsed transactions leaves every ledger followed by
\* itself, every amount being summed twice: the decimal that
\* calculate_expenses stands for doubles.
C22_AppendOnly ==
    [][/\ (call' # call /\ call'.op = "add_transaction") =>
             people'[call'.person].transactions =
                 Append(people[call'.person].transactions, call'.transaction)
       /\ (call' # call /\ call'.op = "add_persons_transactions") =>
             people'[call'.person].transactions =
                 people[call'.person].transactions
                     \o OnAccounts(parsed, people[call'.person])
       /\ (call' # call /\ call'.op = "add_transactions") =>
             \A i \in 1..Len(people) :
                /\ Len(people'[i].transactions) >= Len(people[i].transactions)
                /\ Take(people'[i].transactions, Len(people[i].transactions))
                       = people[i].transactions
                /\ OwnLists(people) =>
                       people'[i].transactions =
                           people[i].transactions
                               \o SelectSeq(OnAccounts(parsed, people[i]),
                                            LAMBDA t :
                                                t.ignore = NotIgnored(rev))
       /\ (pc = "populated" /\ call = NoCall
              /\ call'.op = "add_transactions") =>
             \A i \in 1..Len(people) :
                /\ people'[i].transactions =
                       people[i].transactions \o people[i].transactions
                /\ \A c \in CategoryArgs(rev) :
                      calculate_expenses(rev, people'[i], c).a =
                          2 * calculate_expenses(rev, people[i], c).a]_vars

\* the same transaction added twice in a row to a ledger that held others:
\* it is there twice more than before, at the end, and counted twice
C22_Witness ==
    /\ call.op = "add_transaction"
    /\ call.n = 2
    /\ LET ts == people[call.person].transactions
       IN  /\ Len(ts) >= 3
           /\ ts[Len(ts)] = call.transaction
           /\ ts[Len(ts) - 1] = call.transaction
           /\ ts[1] # call.transaction
           /\ calculate_expenses(rev, people[call.person], None).a =
                  SumAmounts(Take(ts, Len(ts) - 2)).a
                      + 2 * call.transaction.amount.a

----------------------------------------------------------------------------
(* C29 *)

\* C29: the ledgers of distinct Persons are independent.  The Persons that
\* Summary.__init__ builds from a configuration are bound to lists of their
\* own, no two to one list, and stay so; add_transaction on one Person, and
\* add_persons_transactions for one Person, change the ledger of that
\* Person and leave the ledger of every Person bound to another list as it
\* was (a Person of main_v2.py that its caller bound to the same list reads
\* the same ledger after the call); no call changes the number of Persons,
\* a name, an email, an account-number list or the list a Person is bound
\* to.
C29_LedgersIndependent ==
    [][/\ Len(people') = Len(people)
       /\ \A j \in 1..Len(people) :
             /\ people'[j].name = people[j].name
             /\ people'[j].email = people[j].email
             /\ people'[j].account_numbers = people[j].account_numbers
             /\ people'[j].ledger = people[j].ledger
       /\ rev = "main" => OwnLists(people) /\ OwnLists(people')
       /\ (call' # call /\ call'.op \in {"add_transaction",
                                          "add_persons_transactions"}) =>
             \A j \in 1..Len(people) :
                j # call'.person =>
                    IF people[j].ledger # people[call'.person].ledger
                    THEN people'[j].transactions = people[j].transactions
                    ELSE people'[j].transactions =
                             people'[call'.person].transactions]_vars

\* a transaction on an account that two Persons of a Summary share was
\* added to one of them: the other one holds it less often
C29_Witness ==
    /\ rev = "main"
    /\ call.op = "add_transaction"
    /\ \E j \in 1..Len(people) :
          /\ j # call.person
          /\ people[j].ledger # people[call.person].ledger
          /\ InAccounts(people[j], call.transaction.account_number).v
          /\ InAccounts(people[call.person], call.transaction.account_number).v
          /\ Occurrences(people[j], call.transaction) <
                 Occurrences(people[call.person], call.transaction)

----------------------------------------------------------------------------
(* C23 *)

\* C23: People.calculate_expenses_difference(p1, p2, category) returns a
\* difference only when both p1 and p2 are members of the roster; when
\* either one, or both, is not in the roster it fails instead of returning
\* a value.
C23_DifferenceNeedsBothMembers ==
    call.op = "calculate_expenses_difference" =>
        (call.result.exc = "none" <=>
            (call.p1.at \in 1..Len(call.people)
                /\ call.p2.at \in 1..Len(call.people)))

----------------------------------------------------------------------------
(* C26 *)

\* the document build_category_enum works on
CategoriesDocument ==
    IF call.config.t = "none" THEN call.stored.doc ELSE call.config

\* C26: build_category_enum(config) returns a Category set whose member
\* names and display values are exactly the keys and values of
\* config["Categories"], one member per entry in document order; it raises
\* KeyError when "Categories" is missing and TypeError when "Categories" is
\* not a mapping or one of its values is not a string, and then no Category
\* set is produced.
C26_CategoriesAreTheMapping ==
    (call.op = "build_category_enum" /\ CategoriesDocument.t = "dict") =>
        LET doc == CategoriesDocument
            at == {i \in 1..Len(doc.pairs) : doc.pairs[i][1] = "Categories"}
            cats == doc.pairs[CHOOSE i \in at : TRUE][2]
        IN  IF at = {}
            THEN call.result.exc = "KeyError" /\ call.result.members = <<>>
            ELSE IF \/ cats.t # "dict"
                    \/ \E i \in 1..Len(cats.pairs) : cats.pairs[i][2].t # "str"
            THEN call.result.exc = "TypeError" /\ call.result.members = <<>>
            ELSE /\ call.result.exc = "none"
                 /\ call.result.members =
                        [i \in 1..Len(cats.pairs) |->
                            <<cats.pairs[i][1], cats.pairs[i][2].s>>]

----------------------------------------------------------------------------
(* C30 *)

\* a ledger without the ignore reasons, whose classes differ by revision
Entries(person) ==
    [k \in 1..Len(person.transactions) |->
        [date |-> person.transactions[k].date,
         name |-> person.transactions[k].name,
         account_number |-> person.transactions[k].account_number,
         amount |-> person.transactions[k].amount,
         category |-> person.transactions[k].category]]

\* C30: for every CSV text and roster (same Category set), the revision that
\* drops ignored rows at parse time and attributes person by person
\* (src/main.py) and the revision that parses them and gates on
\* IgnoredFrom.NOTHING while attributing transaction by transaction
\* (main_v2.py) end with identical per-Person ledger sequences, hence with
\* identical expenses and differences.
C30_DesignsAgree ==
    call.op = "attribute" =>
        /\ call.main.exc = "none" <=> call.v2.exc = "none"
        /\ Len(call.main.people) = Len(call.v2.people)
        /\ \A i \in 1..Len(call.main.people) :
              /\ Entries(call.main.people[i]) = Entries(call.v2.people[i])
              /\ \A c \in CategoryNames("main") \cap CategoryNames("v2") :
                    calculate_expenses("main", call.main.people[i], c) =
                        calculate_expenses("v2", call.v2.people[i], c)

----------------------------------------------------------------------------
(* C28 *)

\* C28: in the revision where the month filter is active (classes.py) every
\* transaction attributed to a Person is dated in the same calendar month
\* of the same year as the engine's report date; a transaction dated in
\* another year is never attributed.
C28_AttributedInReferenceMonth ==
    (call.op = "classes.SpreadsheetSummary" /\ call.result.exc = "none") =>
        \A i \in 1..Len(call.result.people) :
           \A k \in 1..Len(call.result.people[i].transactions) :
              /\ call.result.people[i].transactions[k].date.month =
                     call.date.month
              /\ call.result.people[i].transactions[k].date.year =
                     call.date.year

----------------------------------------------------------------------------
(* C27 *)

RECURSIVE SumSeq(_)
SumSeq(ns) == IF Len(ns) = 0 THEN 0 ELSE ns[1] + SumSeq(Tail(ns))

\* the sum of a sequence of floats, added in its order
RECURSIVE FloatSumSeq(_)
FloatSumSeq(xs) ==
    IF Len(xs) = 0 THEN FloatZero
    ELSE FloatAdd(FloatSumSeq(Take(xs, Len(xs) - 1)), xs[Len(xs)])

\* the number of cents a money cell shows for a float
ShownCents(num) ==
    IF FloatIsNegative(num) THEN -RoundedCents(FloatNeg(num))
    ELSE RoundedCents(num)

\* the text of a money cell that shows n cents, n >= 0
CentsText(n) ==
    ToString(n \div 100) \o "."
        \o (IF n % 100 < 10 THEN "0" ELSE "") \o ToString(n % 100)

\* per member of Category, in enumeration order, what calculate_expenses
\* returns for a person
PerCategory(r, Cat, person) ==
    [k \in 1..Len(Cat) |-> calculate_expenses(Engine(r), person, Cat[k][1])]

\* C27: in every reachable state and for every Person, calculate_expenses()
\* with no category equals the sum over all members c of Category of
\* calculate_expenses(c), so that in each rendered row the Total cell shows
\* the sum of what the row's category cells show.
C27_TotalIsSumOfCategories ==
    \A r \in DOMAIN runs :
       \A i \in 1..Len(runs[r].people) :
          LET person == runs[r].people[i]
              cells == PerCategory(runs[r].rev, runs[r].Category, person)
              total == calculate_expenses(Engine(runs[r].rev), person, None)
          IN  /\ total = FloatSumSeq(cells)
              /\ runs[r].email # NoEmail =>
                    LET row == runs[r].email.html.tbody[i]
                    IN  /\ \A k \in 1..Len(cells) :
                              ~FloatIsNegative(cells[k]) =>
                                  row[k + 1].text = CentsText(ShownCents(cells[k]))
                        /\ ~FloatIsNegative(total) =>
                              TotalCell(row) = CentsText(ShownCents(total))
                        /\ ShownCents(total) =
                              SumSeq([k \in 1..Len(cells) |->
                                         ShownCents(cells[k])])

----------------------------------------------------------------------------
(* C25 *)

\* the positions of a run in the order of analyze_file, after the import of
\* the module where the import reads the configuration
StepOrder(r) ==
    (IF r = "lambda"
     THEN {<<"start", "imported">>, <<"imported", "read">>,
           <<"read", "dated">>, <<"dated", "built">>}
     ELSE {<<"start", "read">>, <<"read", "built">>})
    \cup {<<"built", "rendered">>, <<"rendered", "done">>}

\* C25: within one run of analyze_file the steps happen in the order read
\* object, construct and populate the engine, render, send, each exactly
\* once; the single send_email call has exactly the (sender, recipients,
\* subject, html) rendered from the engine that was populated from the
\* content read for the triggering bucket and key, and send_email is never
\* called before rendering has returned.
C25_StepsInOrder ==
    [][\A r \in DOMAIN runs :
          LET a == runs[r]
              b == runs'[r]
          IN  /\ a.pc # b.pc =>
                    \/ <<a.pc, b.pc>> \in StepOrder(a.rev)
                    \/ b.pc = "aborted" /\ a.pc \notin {"done", "aborted"}
              /\ b.accepted # a.accepted =>
                    /\ a.pc = "rendered"
                    /\ a.accepted = <<>>
                    /\ b.accepted = <<a.email>>
              /\ b.pc \in {"read", "dated", "built", "rendered", "done"} =>
                    /\ b.object.exists
                    /\ b.file_content = b.object.body
              /\ b.pc \in {"built", "rendered", "done"} =>
                    b.people = BuildStep(b, {}).people
              /\ b.pc \in {"rendered", "done"} =>
                    b.email = RenderStep(b).email]_vars

====
